---- MODULE Spec2Model ----
(***************************************************************************)
(* A single node of the educational proof-of-work cryptocurrency in        *)
(* src/blockchain-go: the UTXO ledger (blockchain.go, transaction.go), the *)
(* miner (main.go) and the request handlers of the node (node.go).         *)
(*                                                                         *)
(* Amounts are float64 in the source; they are modelled as integers (whole *)
(* coins), including negative ones, which a JSON request can carry.        *)
(* Strings produced by SHA-256 are modelled structurally: a digest is the  *)
(* pair of its number of leading hex zeros and its preimage, so that two   *)
(* digests are equal exactly when their preimages are.                     *)
(***************************************************************************)
EXTENDS Integers, Sequences, FiniteSets, TLC

(***************************************************************************)
(* Program constants.                                                      *)
(***************************************************************************)
DIFFICULTY == 4
MiningReward == 10
GenesisValue == 50
HexLen == 64

(***************************************************************************)
(* Bounds of the model.                                                    *)
(***************************************************************************)
MaxChain == 3      \* the longest chain a node or a peer builds
MaxPending == 2    \* the largest pending pool
SolveNonce == 1    \* the first nonce whose digest meets the difficulty

(***************************************************************************)
(* Addresses: the node's miner wallet, a client, a peer's miner wallet and *)
(* the sentinel address of the genesis output.                             *)
(***************************************************************************)
MinerAddr == "miner"
AliceAddr == "alice"
PeerAddr == "peer"
GenesisAddr == "1GenesisBlockUnspendableAddressXXXXXXXXXXXXXX"
Addresses == {MinerAddr, AliceAddr, PeerAddr, GenesisAddr}
NoAddr == ""

(***************************************************************************)
(* Strings.  A hash string is [zeros, body]: the count of its leading "0"  *)
(* characters and what is left of its identity.                            *)
(***************************************************************************)
EmptyString == [zeros |-> 0, body |-> <<>>]
ZeroHash == [zeros |-> HexLen, body |-> <<>>]
ForgedHash == [zeros |-> DIFFICULTY, body |-> <<"forged", "0000f00d">>]
WeakHash == [zeros |-> 0, body |-> <<"forged", "beef">>]

\* the leading zeros of the SHA-256 of a serialized block: a fixed function
\* of the preimage, here of its nonce
LeadingZeros(pre) == IF pre.Nonce >= SolveNonce THEN DIFFICULTY ELSE 0

Sha256(pre) == [zeros |-> LeadingZeros(pre), body |-> <<pre>>]

(***************************************************************************)
(* Transactions.                                                           *)
(***************************************************************************)
NoTxID == <<>>
GenesisTxID == <<"genesis-coinbase-transaction">>
NoSig == "nil"
GenesisSig == "Educational Blockchain 2025 - Genesis Block Created"

\* the signature an address's key produces
SigOf(addr) == "sig:" \o addr

TxInput(txid, idx, sig) == [TxID |-> txid, OutIndex |-> idx, Signature |-> sig]
TxOutput(value, addr) == [Value |-> value, Address |-> addr]

\* SetID: the SHA-256 of the JSON of the transaction, its ID still empty
SetID(tx) == [tx EXCEPT !.ID = <<"sha256", tx.Inputs, tx.Outputs>>]

IsCoinbase(tx) ==
    /\ Len(tx.Inputs) = 1
    /\ tx.Inputs[1].TxID = NoTxID
    /\ tx.Inputs[1].OutIndex = -1

NewCoinbaseTransaction(toAddress, fees) ==
    SetID([ID |-> NoTxID,
           Inputs |-> <<TxInput(NoTxID, -1, NoSig)>>,
           Outputs |-> <<TxOutput(MiningReward + fees, toAddress)>>])

NewGenesisTransaction ==
    [ID |-> GenesisTxID,
     Inputs |-> <<TxInput(NoTxID, -1, GenesisSig)>>,
     Outputs |-> <<TxOutput(GenesisValue, GenesisAddr)>>]

RECURSIVE SumValues(_)
SumValues(outs) ==
    IF outs = <<>> THEN 0 ELSE outs[1].Value + SumValues(Tail(outs))

(***************************************************************************)
(* Blocks, hashing and proof of work.                                      *)
(***************************************************************************)
\* Hash: SHA-256 of the JSON of the whole block, the Hash field included
\* with the value it has at the time of the call
Hash(block) == Sha256(block)

isValidProof(block) == block.Hash.zeros >= DIFFICULTY

\* the nonce loop shared by Miner.Mine and createGenesisBlock
RECURSIVE ProofLoop(_)
ProofLoop(block) ==
    LET hashed == [block EXCEPT !.Hash = Hash(block)]
    IN  IF isValidProof(hashed)
        THEN hashed
        ELSE ProofLoop([hashed EXCEPT !.Nonce = @ + 1])

GenesisTimestamp == "2024-01-01T00:00:00Z"

\* createGenesisBlock with the wall clock of the constructing process as
\* the timestamp of the block
createGenesisBlockWallClock(now) ==
    ProofLoop([Index |-> 0,
               Timestamp |-> now,
               Transactions |-> <<NewGenesisTransaction>>,
               PreviousHash |-> ZeroHash,
               Hash |-> EmptyString,
               Nonce |-> 0])

\* createGenesisBlock; now is the wall clock of the constructing process,
\* which the function does not read
createGenesisBlock(now) ==
    ProofLoop([Index |-> 0,
               Timestamp |-> GenesisTimestamp,
               Transactions |-> <<NewGenesisTransaction>>,
               PreviousHash |-> ZeroHash,
               Hash |-> EmptyString,
               Nonce |-> 0])

(***************************************************************************)
(* The UTXO set: owner address -> list of UTXOs.  An address that is not a *)
(* key of the Go map has the empty list.                                   *)
(***************************************************************************)
EmptyUTXOSet == [a \in Addresses |-> <<>>]

MkUTXO(txid, idx, output) == [TxID |-> txid, OutIndex |-> idx, Output |-> output]

Matches(utxo, txID, outIndex) == utxo.TxID = txID /\ utxo.OutIndex = outIndex

HasUTXO(utxos, txID, outIndex) ==
    \E i \in 1..Len(utxos) : Matches(utxos[i], txID, outIndex)

\* index of the first UTXO of the list that matches
FirstMatch(utxos, txID, outIndex) ==
    CHOOSE i \in 1..Len(utxos) :
        /\ Matches(utxos[i], txID, outIndex)
        /\ \A j \in 1..(i - 1) : ~Matches(utxos[j], txID, outIndex)

FindUTXO(bc, address) ==
    IF address \in Addresses THEN bc.UTXOSet[address] ELSE <<>>

\* the owner search of validateTransactions and applyUTXOChanges: the
\* address under which the outpoint is found, "" when there is none
FindOwner(utxoSet, txID, outIndex) ==
    IF \E a \in Addresses : HasUTXO(utxoSet[a], txID, outIndex)
    THEN CHOOSE a \in Addresses : HasUTXO(utxoSet[a], txID, outIndex)
    ELSE NoAddr

removeUTXO(utxoSet, address, txID, outIndex) ==
    IF ~HasUTXO(utxoSet[address], txID, outIndex)
    THEN utxoSet
    ELSE LET utxos == utxoSet[address]
             i == FirstMatch(utxos, txID, outIndex)
         IN  [utxoSet EXCEPT ![address] =
                 SubSeq(utxos, 1, i - 1) \o SubSeq(utxos, i + 1, Len(utxos))]

addUTXO(utxoSet, address, utxo) ==
    [utxoSet EXCEPT ![address] = Append(@, utxo)]

GetBalance(bc, address) ==
    LET utxos == FindUTXO(bc, address)
        RECURSIVE Sum(_)
        Sum(i) == IF i > Len(utxos) THEN 0 ELSE utxos[i].Output.Value + Sum(i + 1)
    IN  Sum(1)

\* CalculateFee: for every input, every address's first matching UTXO counts
CalculateFee(tx, utxoSet) ==
    IF IsCoinbase(tx)
    THEN 0
    ELSE LET RECURSIVE AddrSum(_, _)
             AddrSum(input, addrs) ==
                 IF addrs = {}
                 THEN 0
                 ELSE LET a == CHOOSE x \in addrs : TRUE
                          utxos == utxoSet[a]
                          here == IF HasUTXO(utxos, input.TxID, input.OutIndex)
                                  THEN utxos[FirstMatch(utxos, input.TxID,
                                                        input.OutIndex)].Output.Value
                                  ELSE 0
                      IN  here + AddrSum(input, addrs \ {a})
             RECURSIVE InputSum(_)
             InputSum(i) ==
                 IF i > Len(tx.Inputs)
                 THEN 0
                 ELSE AddrSum(tx.Inputs[i], Addresses) + InputSum(i + 1)
         IN  InputSum(1) - SumValues(tx.Outputs)

(***************************************************************************)
(* The blockchain: [Chain, PendingTransactions, UTXOSet].                  *)
(***************************************************************************)
NoErr == "nil"

\* the run-time panic of an index expression on an empty slice
Panic == "panic: runtime error: index out of range [0] with length 0"

LastBlockHash(bc) ==
    IF Len(bc.Chain) = 0 THEN EmptyString ELSE bc.Chain[Len(bc.Chain)].Hash

\* the values of the first k UTXOs of a list
RECURSIVE PrefixValue(_, _)
PrefixValue(utxos, k) ==
    IF k = 0 THEN 0 ELSE PrefixValue(utxos, k - 1) + utxos[k].Output.Value

\* CreateTransaction: [tx, bc]; tx is NoTx when the funds do not suffice
NoTx == [ID |-> NoTxID, Inputs |-> <<>>, Outputs |-> <<>>]

\* CreateTransaction with every UTXO of the sender taken as an input
CreateTransactionAllInputs(bc, fromAddress, toAddress, amount, fee) ==
    LET senderUTXOs == FindUTXO(bc, fromAddress)
        totalNeeded == amount + fee
        \* the loop stops before the first UTXO at which total >= totalNeeded
        stops == {k \in 0..Len(senderUTXOs) :
                      PrefixValue(senderUTXOs, k) >= totalNeeded}
        taken == Len(senderUTXOs)
        total == PrefixValue(senderUTXOs, taken)
        inputs == [i \in 1..taken |->
                      TxInput(senderUTXOs[i].TxID, senderUTXOs[i].OutIndex, NoSig)]
        outputs == <<TxOutput(amount, toAddress)>> \o
                   (IF total > totalNeeded
                    THEN <<TxOutput(total - totalNeeded, fromAddress)>>
                    ELSE <<>>)
        transaction == SetID([ID |-> NoTxID, Inputs |-> inputs, Outputs |-> outputs])
    IN  IF total < totalNeeded
        THEN [ok |-> FALSE, tx |-> NoTx, bc |-> bc]
        ELSE [ok |-> TRUE, tx |-> transaction,
              bc |-> [bc EXCEPT !.PendingTransactions = Append(@, transaction)]]

CreateTransaction(bc, fromAddress, toAddress, amount, fee) ==
    LET senderUTXOs == FindUTXO(bc, fromAddress)
        totalNeeded == amount + fee
        \* the loop stops before the first UTXO at which total >= totalNeeded
        stops == {k \in 0..Len(senderUTXOs) :
                      PrefixValue(senderUTXOs, k) >= totalNeeded}
        taken == IF stops = {}
                 THEN Len(senderUTXOs)
                 ELSE CHOOSE k \in stops : \A j \in stops : k <= j
        total == PrefixValue(senderUTXOs, taken)
        inputs == [i \in 1..taken |->
                      TxInput(senderUTXOs[i].TxID, senderUTXOs[i].OutIndex, NoSig)]
        outputs == <<TxOutput(amount, toAddress)>> \o
                   (IF total > totalNeeded
                    THEN <<TxOutput(total - totalNeeded, fromAddress)>>
                    ELSE <<>>)
        transaction == SetID([ID |-> NoTxID, Inputs |-> inputs, Outputs |-> outputs])
    IN  IF total < totalNeeded
        THEN [ok |-> FALSE, tx |-> NoTx, bc |-> bc]
        ELSE [ok |-> TRUE, tx |-> transaction,
              bc |-> [bc EXCEPT !.PendingTransactions = Append(@, transaction)]]

\* every input of the transaction is found by the owner search
InputsFound(utxoSet, tx) ==
    \A i \in 1..Len(tx.Inputs) :
        FindOwner(utxoSet, tx.Inputs[i].TxID, tx.Inputs[i].OutIndex) # NoAddr

RECURSIVE ValidatedInputSum(_, _, _)
ValidatedInputSum(utxoSet, tx, i) ==
    IF i > Len(tx.Inputs)
    THEN 0
    ELSE LET input == tx.Inputs[i]
             utxos == utxoSet[FindOwner(utxoSet, input.TxID, input.OutIndex)]
         IN  utxos[FirstMatch(utxos, input.TxID, input.OutIndex)].Output.Value
             + ValidatedInputSum(utxoSet, tx, i + 1)

\* ValidateTx without the comparison of the input sum with the output sum
ValidateTxNoSum(bc, block, i) ==
    LET tx == block.Transactions[i]
        RECURSIVE TotalFees(_)
        TotalFees(j) ==
            IF j > Len(block.Transactions)
            THEN 0
            ELSE CalculateFee(block.Transactions[j], bc.UTXOSet) + TotalFees(j + 1)
    IN  IF IsCoinbase(tx)
        THEN IF i # 1
             THEN "coinbase transaction must be the first transaction in block"
             ELSE IF Len(tx.Outputs) = 0
                  THEN Panic   \* the error message reads tx.Outputs[0]
                  ELSE IF \/ Len(tx.Outputs) # 1
                          \/ tx.Outputs[1].Value # MiningReward + TotalFees(2)
                       THEN "invalid coinbase transaction reward"
                       ELSE NoErr
        ELSE IF i = 1
             THEN "first transaction must be coinbase transaction"
             ELSE IF ~InputsFound(bc.UTXOSet, tx)
                  THEN "UTXO not found"
                  ELSE NoErr

\* the check of transaction i of a non-genesis block
ValidateTx(bc, block, i) ==
    LET tx == block.Transactions[i]
        RECURSIVE TotalFees(_)
        TotalFees(j) ==
            IF j > Len(block.Transactions)
            THEN 0
            ELSE CalculateFee(block.Transactions[j], bc.UTXOSet) + TotalFees(j + 1)
    IN  IF IsCoinbase(tx)
        THEN IF i # 1
             THEN "coinbase transaction must be the first transaction in block"
             ELSE IF Len(tx.Outputs) = 0
                  THEN Panic   \* the error message reads tx.Outputs[0]
                  ELSE IF \/ Len(tx.Outputs) # 1
                          \/ tx.Outputs[1].Value # MiningReward + TotalFees(2)
                       THEN "invalid coinbase transaction reward"
                       ELSE NoErr
        ELSE IF i = 1
             THEN "first transaction must be coinbase transaction"
             ELSE IF ~InputsFound(bc.UTXOSet, tx)
                  THEN "UTXO not found"
                  ELSE IF ValidatedInputSum(bc.UTXOSet, tx, 1) < SumValues(tx.Outputs)
                       THEN "insufficient inputs"
                       ELSE NoErr

validateTransactions(bc, block) ==
    IF block.Index = 0
    THEN IF Len(block.Transactions) # 1
         THEN "genesis block should have exactly one transaction"
         ELSE IF ~IsCoinbase(block.Transactions[1])
              THEN "genesis block transaction must be coinbase"
              ELSE IF block.Transactions[1].ID # GenesisTxID
                   THEN "invalid genesis transaction ID"
                   ELSE NoErr
    ELSE IF Len(block.Transactions) = 0
         THEN "non-genesis blocks must have at least one transaction (coinbase)"
         ELSE LET bad == {i \in 1..Len(block.Transactions) :
                              ValidateTx(bc, block, i) # NoErr}
              IN  IF bad = {}
                  THEN NoErr
                  ELSE ValidateTx(bc, block, CHOOSE i \in bad : \A j \in bad : i <= j)

\* applyUTXOChanges, one transaction: spend the inputs that are found, then
\* add the outputs (not those of the coinbase of a block of index 0)
RECURSIVE SpendInputs(_, _, _)
SpendInputs(utxoSet, inputs, i) ==
    IF i > Len(inputs)
    THEN utxoSet
    ELSE LET input == inputs[i]
             ownerAddress == FindOwner(utxoSet, input.TxID, input.OutIndex)
         IN  SpendInputs(IF ownerAddress # NoAddr
                         THEN removeUTXO(utxoSet, ownerAddress, input.TxID,
                                         input.OutIndex)
                         ELSE utxoSet,
                         inputs, i + 1)

RECURSIVE AddOutputs(_, _, _)
AddOutputs(utxoSet, tx, i) ==
    IF i > Len(tx.Outputs)
    THEN utxoSet
    ELSE AddOutputs(addUTXO(utxoSet, tx.Outputs[i].Address,
                            MkUTXO(tx.ID, i - 1, tx.Outputs[i])),
                    tx, i + 1)

ApplyTx(utxoSet, block, tx) ==
    LET spent == IF IsCoinbase(tx) THEN utxoSet ELSE SpendInputs(utxoSet, tx.Inputs, 1)
    IN  IF IsCoinbase(tx) /\ block.Index = 0
        THEN spent
        ELSE AddOutputs(spent, tx, 1)

RECURSIVE ApplyFrom(_, _, _)
ApplyFrom(utxoSet, block, i) ==
    IF i > Len(block.Transactions)
    THEN utxoSet
    ELSE ApplyFrom(ApplyTx(utxoSet, block, block.Transactions[i]), block, i + 1)

\* applyUTXOChanges never fails: [err, bc]
applyUTXOChanges(bc, block) ==
    [err |-> NoErr, bc |-> [bc EXCEPT !.UTXOSet = ApplyFrom(@, block, 1)]]

isValidNewBlock(bc, block) ==
    /\ isValidProof(block)
    /\ block.Index = Len(bc.Chain)
    /\ (Len(bc.Chain) # 0 => block.PreviousHash = LastBlockHash(bc))

\* SubmitBlock with the UTXO changes applied before the transactions are
\* validated and not taken back when the validation fails
SubmitBlockApplyFirst(bc, block) ==
    IF ~isValidNewBlock(bc, block)
    THEN [err |-> "invalid block submitted", bc |-> bc]
    ELSE LET applied == applyUTXOChanges(bc, block)
             verr == validateTransactions(bc, block)
         IN  IF verr # NoErr
             THEN [err |-> "transaction validation failed", bc |-> applied.bc]
             ELSE [err |-> NoErr,
                   bc |-> [applied.bc EXCEPT
                              !.Chain = Append(@, block),
                              !.PendingTransactions = <<>>]]

\* SubmitBlock: [err, bc]
SubmitBlock(bc, block) ==
    IF ~isValidNewBlock(bc, block)
    THEN [err |-> "invalid block submitted", bc |-> bc]
    ELSE LET utxoBackup == bc.UTXOSet
             verr == validateTransactions(bc, block)
             applied == applyUTXOChanges(bc, block)
         IN  IF verr = Panic
             THEN [err |-> Panic, bc |-> bc]
             ELSE IF verr # NoErr
             THEN [err |-> "transaction validation failed", bc |-> bc]
             ELSE IF applied.err # NoErr
                  THEN [err |-> "UTXO update failed",
                        bc |-> [applied.bc EXCEPT !.UTXOSet = utxoBackup]]
                  ELSE [err |-> NoErr,
                        bc |-> [applied.bc EXCEPT
                                   !.Chain = Append(@, block),
                                   !.PendingTransactions = <<>>]]

(***************************************************************************)
(* The miner.                                                              *)
(***************************************************************************)
RECURSIVE PendingFees(_, _)
PendingFees(bc, i) ==
    IF i > Len(bc.PendingTransactions)
    THEN 0
    ELSE CalculateFee(bc.PendingTransactions[i], bc.UTXOSet) + PendingFees(bc, i + 1)

Mine(bc, address, now) ==
    ProofLoop([Index |-> Len(bc.Chain),
               Timestamp |-> now,
               Transactions |-> <<NewCoinbaseTransaction(address, PendingFees(bc, 1))>>
                                \o bc.PendingTransactions,
               PreviousHash |-> LastBlockHash(bc),
               Hash |-> EmptyString,
               Nonce |-> 0])

(***************************************************************************)
(* Chain replacement.                                                      *)
(***************************************************************************)
IsLongerThan(chain, other) == Len(chain) > Len(other)

\* IsValidChain without the comparison of the previous hash
IsValidChainUnlinked(chain) ==
    \A i \in 2..Len(chain) :
        /\ isValidProof(chain[i])
        /\ chain[i].Index = chain[i - 1].Index + 1

IsValidChain(chain) ==
    \A i \in 2..Len(chain) :
        /\ isValidProof(chain[i])
        /\ chain[i].PreviousHash = chain[i - 1].Hash
        /\ chain[i].Index = chain[i - 1].Index + 1

\* the replay loop of ReplaceChain from block i on: [err, bc]
RECURSIVE Replay(_, _, _)
Replay(bc, utxoBackup, i) ==
    IF i > Len(bc.Chain)
    THEN [err |-> NoErr, bc |-> bc]
    ELSE LET block == bc.Chain[i]
             verr == validateTransactions(bc, block)
             applied == applyUTXOChanges(bc, block)
         IN  IF verr = Panic
             THEN [err |-> Panic, bc |-> bc]   \* the replay stops where it is
             ELSE IF verr # NoErr
             THEN [err |-> "chain validation failed",
                   bc |-> [bc EXCEPT !.Chain = <<>>, !.UTXOSet = utxoBackup]]
             ELSE IF applied.err # NoErr
                  THEN [err |-> "UTXO application failed",
                        bc |-> [bc EXCEPT !.Chain = <<>>, !.UTXOSet = utxoBackup]]
                  ELSE Replay(applied.bc, utxoBackup, i + 1)

\* ReplaceChain: [err, bc]
ReplaceChain(bc, newChain) ==
    IF ~IsValidChain(newChain)
    THEN [err |-> "invalid chain", bc |-> bc]
    ELSE IF ~IsLongerThan(newChain, bc.Chain)
         THEN [err |-> "new chain is not longer", bc |-> bc]
         ELSE LET replayed == Replay([bc EXCEPT !.Chain = newChain,
                                                !.UTXOSet = EmptyUTXOSet],
                                     bc.UTXOSet, 1)
              IN  IF replayed.err # NoErr
                  THEN replayed
                  ELSE [err |-> NoErr,
                        bc |-> [replayed.bc EXCEPT !.PendingTransactions = <<>>]]

(***************************************************************************)
(* Construction.                                                           *)
(***************************************************************************)
\* processGenesisBlock: every output of the genesis block becomes a UTXO
processGenesisBlock(bc, genesisBlock) ==
    LET RECURSIVE Each(_, _)
        Each(utxoSet, i) ==
            IF i > Len(genesisBlock.Transactions)
            THEN utxoSet
            ELSE Each(AddOutputs(utxoSet, genesisBlock.Transactions[i], 1), i + 1)
    IN  [bc EXCEPT !.UTXOSet = Each(@, 1)]

\* NewBlockchain when there is no stored chain
NewBlockchain(now) ==
    processGenesisBlock([Chain |-> <<createGenesisBlock(now)>>,
                         PendingTransactions |-> <<>>,
                         UTXOSet |-> EmptyUTXOSet],
                        createGenesisBlock(now))

(***************************************************************************)
(* The node, constructed without a persistence adapter (DB is nil), as     *)
(* NewNode does.                                                           *)
(***************************************************************************)
VARIABLES Chain, PendingTransactions, UTXOSet, last,
          Peers, mutex, pc, local, fetched, access, DB, committed, merkle,
          net

vars == <<Chain, PendingTransactions, UTXOSet, last,
          Peers, mutex, pc, local, fetched, access, DB, committed, merkle,
          net>>

\* the store of the persistence adapter, and the Blockchain as it was in
\* memory when the adapter was last written
persisted == <<DB, committed>>

\* the node and its Blockchain
node == <<Chain, PendingTransactions, UTXOSet, last,
          Peers, mutex, pc, local, fetched, access, persisted>>

\* the Blockchain and the answer of the last request
ledger == <<Chain, PendingTransactions, UTXOSet, last>>

\* the peer list, the lock and the goroutines of the node
nodeVars == <<Peers, mutex, pc, local, fetched, access, persisted, merkle, net>>

BC == [Chain |-> Chain, PendingTransactions |-> PendingTransactions,
       UTXOSet |-> UTXOSet]

Becomes(bc) ==
    /\ Chain' = bc.Chain
    /\ PendingTransactions' = bc.PendingTransactions
    /\ UTXOSet' = bc.UTXOSet

\* the endpoint of the broadcast a handler starts, if any
NoBroadcast == "none"

\* what the last request did: the answer and the broadcast started
Answer(op, status, err, sent) ==
    [op |-> op, status |-> status, err |-> err, sent |-> sent]

Result(op, status, err) == Answer(op, status, err, NoBroadcast)

\* wall clocks at which a node process may be started
LocalBoot == "2025-01-01T00:00:00Z"
PeerBoot == "2025-03-01T00:00:00Z"
BootTimes == {LocalBoot, PeerBoot}

\* the peer of the -peers flag, a peer that announces itself, and what a
\* read past the end of the backing array of the peer list yields
ConfiguredPeer == "localhost:8081"
AnnouncedPeer == "localhost:8082"
PeerAddresses == {ConfiguredPeer, AnnouncedPeer}
Garbage == "?"

\* the goroutines of the node that the model follows
Goroutines == {"postPeers", "getPeers", "transaction", "broadcast",
               "discover", "sync"}

NoOne == "nobody"

Unlocked == [writer |-> NoOne, readers |-> {}]

\* no chain fetched from a peer
NoChain == [kind |-> "none", len |-> 0]

\* the last access to the Blockchain or the peer list: none yet
NoAccess == [by |-> NoOne, target |-> "none", mode |-> "none",
             holds |-> "none", racing |-> FALSE]

\* no Merkle tree is built by the node
NoMerkle == [op |-> "none"]

\* the node alone, without the nodes it is a peer of
NoNet == [op |-> "none"]

\* no persistence adapter (DB is nil), and nothing written yet
NoDB == [height |-> -2, blocks |-> <<>>, utxo |-> <<>>]
NoCommit == [Chain |-> <<>>, UTXOSet |-> <<>>, commits |-> 0]

\* the value of the -peers flag: a string, here the sequence of its pieces,
\* each an address, a comma or a blank
Comma == ","
Blank == " "

\* strings.Split(s, ","): the fields between the commas
RECURSIVE Split(_)
Split(s) ==
    LET commas == {i \in 1..Len(s) : s[i] = Comma}
        k == CHOOSE i \in commas : \A j \in commas : i <= j
    IN  IF commas = {}
        THEN <<s>>
        ELSE <<SubSeq(s, 1, k - 1)>> \o Split(SubSeq(s, k + 1, Len(s)))

\* strings.TrimSpace
RECURSIVE TrimSpace(_)
TrimSpace(s) ==
    IF s # <<>> /\ s[1] = Blank
    THEN TrimSpace(Tail(s))
    ELSE IF s # <<>> /\ s[Len(s)] = Blank
         THEN TrimSpace(SubSeq(s, 1, Len(s) - 1))
         ELSE s

\* the string of a trimmed field that holds at most one address
FieldString(s) == IF s = <<>> THEN "" ELSE s[1]

\* NewNode: the peer list of a node started with the flag value peers
NewNode(peers) ==
    IF peers = <<>>
    THEN <<>>
    ELSE [i \in 1..Len(Split(peers)) |-> FieldString(TrimSpace(Split(peers)[i]))]

\* the flag of the node that the requests and the goroutines are followed on
ConfiguredFlag == <<ConfiguredPeer>>

\* the node after NewNode with the flag value peers
InitWith(peers) ==
    /\ \E now \in BootTimes :
          /\ Chain = NewBlockchain(now).Chain
          /\ PendingTransactions = NewBlockchain(now).PendingTransactions
          /\ UTXOSet = NewBlockchain(now).UTXOSet
    /\ last = Result("start", "ok", NoErr)
    /\ Peers = NewNode(peers)
    /\ mutex = Unlocked
    /\ pc = [g \in Goroutines |->
                CASE g = "discover" -> "sleeping"
                  [] g \in {"broadcast", "sync"} -> "none"
                  [] OTHER -> "idle"]
    /\ local = [g \in Goroutines |-> <<>>]
    /\ fetched = NoChain
    /\ access = NoAccess
    /\ DB = NoDB
    /\ committed = NoCommit
    /\ merkle = NoMerkle
    /\ net = NoNet

Init == InitWith(ConfiguredFlag)

(***************************************************************************)
(* Inputs of the handlers.                                                 *)
(***************************************************************************)
MineTime == "2025-01-01T00:00:00Z"

\* bodies of POST /transaction
Requests ==
    {[from |-> MinerAddr, to |-> AliceAddr, amount |-> 3, fee |-> 1],
     [from |-> MinerAddr, to |-> GenesisAddr, amount |-> -1, fee |-> 0],
     [from |-> GenesisAddr, to |-> AliceAddr, amount |-> 50, fee |-> 0]}

\* the UTXO a peer's transfer spends: the first one of the first owner
AddrOrder == <<MinerAddr, GenesisAddr, AliceAddr, PeerAddr>>

Victim(bc) ==
    LET owners == {i \in 1..Len(AddrOrder) : bc.UTXOSet[AddrOrder[i]] # <<>>}
    IN  IF owners = {}
        THEN MkUTXO(GenesisTxID, 7, TxOutput(1, AliceAddr))
        ELSE bc.UTXOSet[AddrOrder[CHOOSE i \in owners : \A j \in owners : i <= j]][1]

\* Sign: the signature fills the inputs in place, the ID stays
Sign(tx, sig) ==
    [tx EXCEPT !.Inputs = [i \in 1..Len(tx.Inputs) |->
                              [tx.Inputs[i] EXCEPT !.Signature = sig]]]

\* a peer's transfer of the victim UTXO, and extra coins, to an address
SpendTx(bc, to, extra) ==
    SetID([ID |-> NoTxID,
           Inputs |-> <<TxInput(Victim(bc).TxID, Victim(bc).OutIndex, NoSig)>>,
           Outputs |-> <<TxOutput(Victim(bc).Output.Value + extra, to)>>])

\* a transfer of an outpoint that does not exist
MissingTx ==
    SetID([ID |-> NoTxID,
           Inputs |-> <<TxInput(GenesisTxID, 9, NoSig)>>,
           Outputs |-> <<TxOutput(1, PeerAddr)>>])

\* transactions received on /transaction/broadcast: the ones a peer's
\* handleTransaction creates, a peer's transfer, and one that spends an
\* outpoint that does not exist
BroadcastTxs(bc) ==
    {CreateTransaction(bc, r.from, r.to, r.amount, r.fee).tx : r \in
        {q \in Requests : CreateTransaction(bc, q.from, q.to, q.amount, q.fee).ok}}
    \cup {Sign(SpendTx(bc, PeerAddr, 0), SigOf(Victim(bc).Output.Address)),
          MissingTx}

\* a block a peer mines on top of the local chain
PeerBlock(bc, index, txs, previousHash) ==
    ProofLoop([Index |-> index, Timestamp |-> MineTime, Transactions |-> txs,
               PreviousHash |-> previousHash, Hash |-> EmptyString, Nonce |-> 0])

Coinbase(bc, txs) ==
    LET RECURSIVE Fees(_)
        Fees(i) == IF i > Len(txs) THEN 0
                   ELSE CalculateFee(txs[i], bc.UTXOSet) + Fees(i + 1)
    IN  NewCoinbaseTransaction(PeerAddr, Fees(1))

PeerBlockWith(bc, txs) ==
    PeerBlock(bc, Len(bc.Chain), <<Coinbase(bc, txs)>> \o txs, LastBlockHash(bc))

BlockKinds ==
    {"honest", "forged", "weak", "unlinked", "stale", "future", "empty",
     "nocoinbase", "badreward", "nooutput", "twocoinbase", "missing",
     "overspend", "doublespend"}

\* blocks received on /block/broadcast: spend is a peer's transfer, signed
\* the same with its owner's signature, plain a block of a coinbase alone
BlockOfKind(bc, kind, spend, signed, plain) ==
        CASE kind = "honest" -> PeerBlockWith(bc, <<signed>>)
          [] kind = "forged" -> [plain EXCEPT !.Hash = ForgedHash]
          [] kind = "weak" -> [plain EXCEPT !.Hash = WeakHash]
          [] kind = "unlinked" ->
                PeerBlock(bc, plain.Index, plain.Transactions, ZeroHash)
          [] kind = "stale" ->
                PeerBlock(bc, plain.Index - 1, plain.Transactions, plain.PreviousHash)
          [] kind = "future" ->
                PeerBlock(bc, plain.Index + 1, plain.Transactions, plain.PreviousHash)
          [] kind = "empty" ->
                PeerBlock(bc, plain.Index, <<>>, plain.PreviousHash)
          [] kind = "nocoinbase" ->
                PeerBlock(bc, plain.Index, <<signed>>, plain.PreviousHash)
          [] kind = "badreward" ->
                PeerBlock(bc, plain.Index,
                          <<NewCoinbaseTransaction(PeerAddr, 1)>>, plain.PreviousHash)
          [] kind = "nooutput" ->
                PeerBlock(bc, plain.Index,
                          <<[NewCoinbaseTransaction(PeerAddr, 0) EXCEPT
                                !.Outputs = <<>>]>>, plain.PreviousHash)
          [] kind = "twocoinbase" ->
                PeerBlock(bc, plain.Index,
                          <<NewCoinbaseTransaction(PeerAddr, 0),
                            NewCoinbaseTransaction(PeerAddr, 0)>>, plain.PreviousHash)
          [] kind = "missing" -> PeerBlockWith(bc, <<MissingTx>>)
          [] kind = "overspend" ->
                PeerBlockWith(bc, <<Sign(SpendTx(bc, PeerAddr, 1),
                                         SigOf(Victim(bc).Output.Address))>>)
          [] kind = "doublespend" ->
                PeerBlockWith(bc, <<spend,
                                    Sign(SpendTx(bc, AliceAddr, 0), SigOf(PeerAddr))>>)

BroadcastBlock(bc, kind) ==
    BlockOfKind(bc, kind, SpendTx(bc, PeerAddr, 0),
                Sign(SpendTx(bc, PeerAddr, 0), SigOf(Victim(bc).Output.Address)),
                PeerBlockWith(bc, <<>>))

\* the ledger of a peer that started from its own genesis block and mined
\* n - 1 blocks; with forged, its genesis block carries a hash without proof
RECURSIVE PeerLedger(_, _)
PeerLedger(n, forged) ==
    IF n = 1
    THEN IF forged
         THEN [NewBlockchain(PeerBoot) EXCEPT !.Chain[1].Hash = WeakHash]
         ELSE NewBlockchain(PeerBoot)
    ELSE LET before == PeerLedger(n - 1, forged)
         IN  SubmitBlock(before, Mine(before, PeerAddr, MineTime)).bc

ChainKinds == {"honest", "forgedgenesis", "badtx", "unlinked", "weak", "shifted"}

\* an honest peer chain of every length, a chain of two blocks whose
\* indices start at 1, the others of the greatest length
PeerChainIds ==
    {p \in [kind : ChainKinds, len : 1..MaxChain] :
        /\ p.kind \notin {"honest", "shifted"} => p.len = MaxChain
        /\ p.kind = "shifted" => p.len = 2}

\* chains received on /blockchain/sync: honest is the chain of an honest
\* peer of the length asked for, before the ledger of that peer one block
\* earlier
PeerChainOn(p, honest, before) ==
    CASE p.kind = "honest" -> honest
      [] p.kind = "forgedgenesis" -> PeerLedger(p.len, TRUE).Chain
      [] p.kind = "badtx" ->
            Append(before.Chain,
                   PeerBlock(before, p.len - 1, <<>>, LastBlockHash(before)))
      [] p.kind = "unlinked" ->
            Append(before.Chain,
                   PeerBlock(before, p.len - 1, honest[p.len].Transactions, ZeroHash))
      [] p.kind = "weak" ->
            Append(before.Chain, [honest[p.len] EXCEPT !.Hash = WeakHash])
      [] p.kind = "shifted" ->
            LET first == PeerBlock(before, 1,
                                   <<NewCoinbaseTransaction(PeerAddr, 0)>>,
                                   ZeroHash)
            IN  <<first,
                  PeerBlock(before, 2, <<NewCoinbaseTransaction(PeerAddr, 0)>>,
                            first.Hash)>>

PeerChain(p) ==
    PeerChainOn(p, PeerLedger(p.len, FALSE).Chain, PeerLedger(p.len - 1, FALSE))

(***************************************************************************)
(* The handlers.  A handler holds the node's lock from its first read to   *)
(* its last write, so each one is one step.                                *)
(***************************************************************************)
\* the Blockchain and the answer after the locked section of
\* handleTransaction
Created(r) ==
    LET created == CreateTransaction(BC, r.from, r.to, r.amount, r.fee)
    IN  /\ Becomes(created.bc)
        /\ last' = IF created.ok
                   THEN Answer("transaction", "pending", NoErr,
                               "/transaction/broadcast")
                   ELSE Result("transaction", "failed",
                               "Failed to create transaction")

handleTransaction(r) ==
    /\ Len(Chain) < MaxChain
    /\ Len(PendingTransactions) < MaxPending
    /\ Created(r)
    /\ UNCHANGED nodeVars

\* handleTransactionBroadcast without the search for the identifier in the
\* pending pool
handleTransactionBroadcastNoSearch(tx) ==
    /\ Len(Chain) < MaxChain
    /\ Len(PendingTransactions) < MaxPending
    /\ PendingTransactions' = Append(PendingTransactions, tx)
    /\ UNCHANGED <<Chain, UTXOSet>>
    /\ last' = Result("transaction_broadcast", "accepted", NoErr)
    /\ UNCHANGED nodeVars

handleTransactionBroadcast(tx) ==
    /\ Len(Chain) < MaxChain
    /\ IF \E i \in 1..Len(PendingTransactions) : PendingTransactions[i].ID = tx.ID
       THEN /\ UNCHANGED <<Chain, PendingTransactions, UTXOSet>>
            /\ last' = Result("transaction_broadcast", "already_exists", NoErr)
       ELSE /\ Len(PendingTransactions) < MaxPending
            /\ PendingTransactions' = Append(PendingTransactions, tx)
            /\ UNCHANGED <<Chain, UTXOSet>>
            /\ last' = Result("transaction_broadcast", "accepted", NoErr)
    /\ UNCHANGED nodeVars

\* the state and the answer after a call of SubmitBlock
Submitted(op, submitted, okStatus, errStatus, sent) ==
    /\ Becomes(submitted.bc)
    /\ last' = IF submitted.err = NoErr
               THEN Answer(op, okStatus, NoErr, sent)
               ELSE IF submitted.err = Panic
                    THEN Result(op, "panic", Panic)   \* no answer is written
                    ELSE Result(op, errStatus, submitted.err)

handleMine ==
    /\ Len(Chain) < MaxChain
    /\ LET block == Mine(BC, MinerAddr, MineTime)
       IN  Submitted("mine", SubmitBlock(BC, block), "mined", "submit_failed",
                     "/block/broadcast")
    /\ UNCHANGED nodeVars

\* handleBlockBroadcast that sends an accepted block on to the peers
BlockReceivedRelayed(block) ==
    IF block.Index <= Len(Chain) - 1
    THEN /\ UNCHANGED <<Chain, PendingTransactions, UTXOSet>>
         /\ last' = Result("block_broadcast", "already_exists", NoErr)
    ELSE IF block.Index # Len(Chain)
         THEN /\ UNCHANGED <<Chain, PendingTransactions, UTXOSet>>
              /\ last' = Result("block_broadcast", "invalid_sequence", NoErr)
         ELSE Submitted("block_broadcast", SubmitBlock(BC, block),
                        "accepted", "validation_failed", "/block/broadcast")

\* the locked section of handleBlockBroadcast for the decoded block
BlockReceived(block) ==
    IF block.Index <= Len(Chain) - 1
    THEN /\ UNCHANGED <<Chain, PendingTransactions, UTXOSet>>
         /\ last' = Result("block_broadcast", "already_exists", NoErr)
    ELSE IF block.Index # Len(Chain)
         THEN /\ UNCHANGED <<Chain, PendingTransactions, UTXOSet>>
              /\ last' = Result("block_broadcast", "invalid_sequence", NoErr)
         ELSE Submitted("block_broadcast", SubmitBlock(BC, block),
                        "accepted", "validation_failed", NoBroadcast)

handleBlockBroadcast(kind) ==
    /\ Len(Chain) < MaxChain
    /\ BlockReceived(BroadcastBlock(BC, kind))
    /\ UNCHANGED nodeVars

\* the Blockchain and the answer of handleBlockchainSync to the chain
\* peerChain, where replaced is what ReplaceChain returns for it
SyncAnswer(peerChain, replaced) ==
    IF IsLongerThan(peerChain, Chain) /\ IsValidChain(peerChain)
    THEN /\ Becomes(replaced.bc)
         /\ last' = Result("sync",
                           IF replaced.err = NoErr THEN "chain_replaced"
                           ELSE IF replaced.err = Panic THEN "panic"
                           ELSE "replacement_failed", replaced.err)
    ELSE /\ UNCHANGED <<Chain, PendingTransactions, UTXOSet>>
         /\ last' = Result("sync", "chain_not_replaced", NoErr)

ChainReceived(peerChain) == SyncAnswer(peerChain, ReplaceChain(BC, peerChain))

\* the locked section of handleBlockchainSync for the peer chain p
Replaced(p) == ChainReceived(PeerChain(p))

handleBlockchainSync(p) == Replaced(p) /\ UNCHANGED nodeVars

(***************************************************************************)
(* The node's reader/writer lock and its goroutines: the handlers of       *)
(* /peers and /transaction, the broadcast fan-out, peer discovery and the  *)
(* chain sync it starts.  Each goroutine takes one step at a time; a step  *)
(* that touches the Blockchain or the peer list records the lock it holds. *)
(***************************************************************************)
\* the mode in which goroutine g holds n.mutex
Holds(g) ==
    IF mutex.writer = g THEN "exclusive"
    ELSE IF g \in mutex.readers THEN "shared"
    ELSE "none"

Goto(g, at) == pc' = [pc EXCEPT ![g] = at]

\* n.mutex.Lock / Unlock / RLock / RUnlock
Lock(g) == mutex = Unlocked /\ mutex' = [mutex EXCEPT !.writer = g]
Unlock(g) == mutex.writer = g /\ mutex' = [mutex EXCEPT !.writer = NoOne]
RLock(g) == mutex.writer = NoOne /\ mutex' = [mutex EXCEPT !.readers = @ \cup {g}]
RUnlock(g) == g \in mutex.readers /\ mutex' = [mutex EXCEPT !.readers = @ \ {g}]

\* a goroutine is in the middle of the store of the new slice to n.Peers
Storing == \E h \in Goroutines : pc[h] = "storing"

\* goroutine g reads or writes the Blockchain or the peer list
Access(g, target, mode) ==
    [by |-> g, target |-> target, mode |-> mode, holds |-> Holds(g),
     racing |-> target = "Peers" /\ pc[g] # "storing" /\ Storing]

\* what the read of the slice n.Peers yields.  While another goroutine
\* stores the slice that append has returned, the read is a data race: it
\* yields the old slice, the new one, or the old array with the new length,
\* whose last element lies past the end of the array.
RacyRead ==
    IF Storing
    THEN {Peers, Append(Peers, local["postPeers"][1]), Append(Peers, Garbage)}
    ELSE {Peers}

\* addPeer, called by POST /peers
addPeerLock(peerAddress) ==
    /\ pc["postPeers"] = "idle"
    /\ Lock("postPeers")
    /\ Goto("postPeers", "scanning")
    /\ local' = [local EXCEPT !["postPeers"] = <<peerAddress>>]
    /\ UNCHANGED <<persisted, merkle, net, ledger, Peers, fetched, access>>

addPeerScan ==
    /\ pc["postPeers"] = "scanning"
    /\ access' = Access("postPeers", "Peers", "read")
    /\ IF \E i \in 1..Len(Peers) : Peers[i] = local["postPeers"][1]
       THEN Goto("postPeers", "unlocking")
       ELSE Goto("postPeers", "appending")
    /\ UNCHANGED <<persisted, merkle, net, ledger, Peers, mutex, local, fetched>>

\* append has built the new slice; its store to n.Peers begins
addPeerAppend ==
    /\ pc["postPeers"] = "appending"
    /\ Goto("postPeers", "storing")
    /\ UNCHANGED <<persisted, merkle, net, ledger, Peers, mutex, local, fetched, access>>

addPeerStore ==
    /\ pc["postPeers"] = "storing"
    /\ Peers' = Append(Peers, local["postPeers"][1])
    /\ access' = Access("postPeers", "Peers", "write")
    /\ Goto("postPeers", "unlocking")
    /\ UNCHANGED <<persisted, merkle, net, ledger, mutex, local, fetched>>

addPeerUnlock ==
    /\ pc["postPeers"] = "unlocking"
    /\ Unlock("postPeers")
    /\ Goto("postPeers", "idle")
    /\ local' = [local EXCEPT !["postPeers"] = <<>>]
    /\ UNCHANGED <<persisted, merkle, net, ledger, Peers, fetched, access>>

\* handlePeers, GET
handlePeersRLock ==
    /\ pc["getPeers"] = "idle"
    /\ RLock("getPeers")
    /\ Goto("getPeers", "reading")
    /\ UNCHANGED <<persisted, merkle, net, ledger, Peers, local, fetched, access>>

handlePeersRead ==
    /\ pc["getPeers"] = "reading"
    /\ access' = Access("getPeers", "Peers", "read")
    /\ local' = [local EXCEPT !["getPeers"] = Peers]
    /\ Goto("getPeers", "answering")
    /\ UNCHANGED <<persisted, merkle, net, ledger, Peers, mutex, fetched>>

handlePeersRUnlock ==
    /\ pc["getPeers"] = "answering"
    /\ RUnlock("getPeers")
    /\ Goto("getPeers", "idle")
    /\ local' = [local EXCEPT !["getPeers"] = <<>>]
    /\ UNCHANGED <<persisted, merkle, net, ledger, Peers, fetched, access>>

\* handleTransaction step by step; a request is taken when the broadcast of
\* the request before it has ended
handleTransactionLock ==
    /\ pc["transaction"] = "idle"
    /\ pc["broadcast"] = "none"
    /\ Len(Chain) < MaxChain
    /\ Len(PendingTransactions) < MaxPending
    /\ Lock("transaction")
    /\ Goto("transaction", "creating")
    /\ UNCHANGED <<persisted, merkle, net, ledger, Peers, local, fetched, access>>

handleTransactionCreate(r) ==
    /\ pc["transaction"] = "creating"
    /\ Created(r)
    /\ access' = Access("transaction", "Blockchain", "write")
    /\ Goto("transaction", IF last'.status = "pending" THEN "created" ELSE "failed")
    /\ UNCHANGED <<persisted, merkle, net, Peers, mutex, local, fetched>>

handleTransactionUnlock ==
    /\ pc["transaction"] \in {"created", "failed"}
    /\ Unlock("transaction")
    /\ Goto("transaction", IF pc["transaction"] = "created" THEN "spawning" ELSE "idle")
    /\ UNCHANGED <<persisted, merkle, net, ledger, Peers, local, fetched, access>>

\* go n.broadcastToPeers("/transaction/broadcast", tx)
handleTransactionGo ==
    /\ pc["transaction"] = "spawning"
    /\ pc' = [pc EXCEPT !["transaction"] = "idle", !["broadcast"] = "ranging"]
    /\ UNCHANGED <<persisted, merkle, net, ledger, Peers, mutex, local, fetched, access>>

\* broadcastToPeers: the range over n.Peers, then one request per peer
broadcastToPeersRange ==
    /\ pc["broadcast"] = "ranging"
    /\ access' = Access("broadcast", "Peers", "read")
    /\ \E peers \in RacyRead :
          /\ local' = [local EXCEPT !["broadcast"] = peers]
          /\ Goto("broadcast", IF peers = <<>> THEN "none" ELSE "sending")
    /\ UNCHANGED <<persisted, merkle, net, ledger, Peers, mutex, fetched>>

broadcastToPeersSend ==
    /\ pc["broadcast"] = "sending"
    /\ local' = [local EXCEPT !["broadcast"] = Tail(@)]
    /\ Goto("broadcast", IF Tail(local["broadcast"]) = <<>> THEN "none" ELSE "sending")
    /\ UNCHANGED <<persisted, merkle, net, ledger, Peers, mutex, fetched, access>>

\* discoverPeers: after the sleep, the range over n.Peers
discoverPeersRange ==
    /\ pc["discover"] = "sleeping"
    /\ access' = Access("discover", "Peers", "read")
    /\ \E peers \in RacyRead :
          /\ local' = [local EXCEPT !["discover"] = peers]
          /\ Goto("discover", IF peers = <<>> THEN "done" ELSE "connecting")
    /\ UNCHANGED <<persisted, merkle, net, ledger, Peers, mutex, fetched>>

\* connectToPeer and announceToPeer for the next peer of the range; when
\* the peer answers both requests, go n.syncWithPeer(peer)
connectToPeer(answers) ==
    /\ pc["discover"] = "connecting"
    /\ pc["sync"] = "none"
    /\ pc' = [pc EXCEPT !["discover"] = IF Tail(local["discover"]) = <<>>
                                        THEN "done" ELSE "connecting",
                        !["sync"] = IF answers THEN "fetching" ELSE "none"]
    /\ local' = [local EXCEPT !["discover"] = Tail(@),
                              !["sync"] = IF answers
                                          THEN <<Head(local["discover"])>>
                                          ELSE <<>>]
    /\ UNCHANGED <<persisted, merkle, net, ledger, Peers, mutex, fetched, access>>

\* syncWithPeer: GET /blockchain of the peer
syncWithPeerFetch(p) ==
    /\ pc["sync"] = "fetching"
    /\ fetched' = p
    /\ Goto("sync", "locking")
    /\ UNCHANGED <<persisted, merkle, net, ledger, Peers, mutex, local, access>>

syncWithPeerLock ==
    /\ pc["sync"] = "locking"
    /\ Lock("sync")
    /\ Goto("sync", "comparing")
    /\ UNCHANGED <<persisted, merkle, net, ledger, Peers, local, fetched, access>>

syncWithPeerCompare ==
    /\ pc["sync"] = "comparing"
    /\ access' = Access("sync", "Blockchain", "read")
    /\ Goto("sync", IF IsLongerThan(PeerChain(fetched), Chain)
                    THEN "longer" ELSE "notlonger")
    /\ UNCHANGED <<persisted, merkle, net, ledger, Peers, mutex, local, fetched>>

syncWithPeerUnlock ==
    /\ pc["sync"] \in {"longer", "notlonger"}
    /\ Unlock("sync")
    /\ Goto("sync", IF pc["sync"] = "longer" THEN "posting" ELSE "none")
    /\ fetched' = IF pc["sync"] = "longer" THEN fetched ELSE NoChain
    /\ local' = [local EXCEPT !["sync"] = IF pc["sync"] = "longer" THEN @ ELSE <<>>]
    /\ UNCHANGED <<persisted, merkle, net, ledger, Peers, access>>

\* the POST of the peer's chain to the node's own /blockchain/sync
handleBlockchainSyncLock ==
    /\ pc["sync"] = "posting"
    /\ Lock("sync")
    /\ Goto("sync", "replacing")
    /\ UNCHANGED <<persisted, merkle, net, ledger, Peers, local, fetched, access>>

handleBlockchainSyncReplace ==
    /\ pc["sync"] = "replacing"
    /\ Replaced(fetched)
    /\ access' = Access("sync", "Blockchain", "write")
    /\ Goto("sync", "answered")
    /\ UNCHANGED <<persisted, merkle, net, Peers, mutex, local, fetched>>

handleBlockchainSyncUnlock ==
    /\ pc["sync"] = "answered"
    /\ Unlock("sync")
    /\ Goto("sync", "none")
    /\ fetched' = NoChain
    /\ local' = [local EXCEPT !["sync"] = <<>>]
    /\ UNCHANGED <<persisted, merkle, net, ledger, Peers, access>>

LockNext ==
    \/ \E peerAddress \in PeerAddresses : addPeerLock(peerAddress)
    \/ addPeerScan
    \/ addPeerAppend
    \/ addPeerStore
    \/ addPeerUnlock
    \/ handlePeersRLock
    \/ handlePeersRead
    \/ handlePeersRUnlock
    \/ handleTransactionLock
    \/ \E r \in Requests : handleTransactionCreate(r)
    \/ handleTransactionUnlock
    \/ handleTransactionGo
    \/ broadcastToPeersRange
    \/ broadcastToPeersSend
    \/ discoverPeersRange
    \/ \E answers \in BOOLEAN : connectToPeer(answers)
    \/ \E p \in PeerChainIds : syncWithPeerFetch(p)
    \/ syncWithPeerLock
    \/ syncWithPeerCompare
    \/ syncWithPeerUnlock
    \/ handleBlockchainSyncLock
    \/ handleBlockchainSyncReplace
    \/ handleBlockchainSyncUnlock

LockSpec == Init /\ [][LockNext]_vars

(***************************************************************************)
(* The peer list of a node started with any flag value, under the          *)
(* registrations of POST /peers and the reads of GET /peers.               *)
(***************************************************************************)
PeerFlags ==
    {<<>>,
     <<ConfiguredPeer>>,
     <<ConfiguredPeer, Comma, AnnouncedPeer>>,
     <<ConfiguredPeer, Comma, Blank, ConfiguredPeer>>,
     <<Blank, AnnouncedPeer, Comma>>}

PeerInit == \E peers \in PeerFlags : InitWith(peers)

PeerNext ==
    \/ \E peerAddress \in PeerAddresses : addPeerLock(peerAddress)
    \/ addPeerScan
    \/ addPeerAppend
    \/ addPeerStore
    \/ addPeerUnlock
    \/ handlePeersRLock
    \/ handlePeersRead
    \/ handlePeersRUnlock

PeerSpec == PeerInit /\ [][PeerNext]_vars

(***************************************************************************)
(* Persistence: a Blockchain constructed with an adapter.  The store maps  *)
(* "block:<index>" to a block, "meta:chain_height" to a number and         *)
(* "utxo:<address>" to a list of UTXOs; every adapter call succeeds, and   *)
(* the JSON encoding of a block or a UTXO decodes to the value encoded.    *)
(***************************************************************************)
\* the number of times the store is written after the construction
MaxCommits == 2

\* the block indexes the chains of the model store a block under
StoredKeys == 0..MaxChain

\* what LoadBlock finds under a key that was never written
NoBlock == [Index |-> -1, Timestamp |-> "", Transactions |-> <<>>,
            PreviousHash |-> EmptyString, Hash |-> EmptyString, Nonce |-> 0]

\* a store nothing was written to; GetChainHeight answers -1 for it
EmptyDB == [height |-> -1,
            blocks |-> [i \in StoredKeys |-> NoBlock],
            utxo |-> EmptyUTXOSet]

\* SaveBlock writes the block under the key of its Index field
SaveBlock(db, block) == [db EXCEPT !.blocks[block.Index] = block]

LoadBlock(db, index) == db.blocks[index]

SaveMetadata(db, value) == [db EXCEPT !.height = value]

GetChainHeight(db) == db.height

\* SaveUTXOSet writes one key for every address of the map, and leaves the
\* keys of the other addresses as they are
SaveUTXOSet(db, utxoSet) ==
    [db EXCEPT !.utxo = [a \in Addresses |->
                            IF utxoSet[a] # <<>> THEN utxoSet[a] ELSE @[a]]]

\* LoadUTXOSet collects every key with the prefix "utxo:"
LoadUTXOSet(db) == db.utxo

RECURSIVE SaveBlocks(_, _, _)
SaveBlocks(db, chain, i) ==
    IF i > Len(chain)
    THEN db
    ELSE SaveBlocks(SaveBlock(db, chain[i]), chain, i + 1)

SaveHeight(db, chain) ==
    IF Len(chain) > 0 THEN SaveMetadata(db, Len(chain) - 1) ELSE db

saveToDatabase(db, bc) ==
    SaveUTXOSet(SaveHeight(SaveBlocks(db, bc.Chain, 1), bc.Chain), bc.UTXOSet)

\* the block loop of loadFromDatabase, which appends to the chain until a
\* block is missing
RECURSIVE LoadBlocks(_, _, _)
LoadBlocks(db, chain, i) ==
    IF i > GetChainHeight(db)
    THEN [ok |-> TRUE, Chain |-> chain]
    ELSE IF LoadBlock(db, i) = NoBlock
         THEN [ok |-> FALSE, Chain |-> chain]
         ELSE LoadBlocks(db, Append(chain, LoadBlock(db, i)), i + 1)

loadFromDatabase(db, bc) ==
    IF GetChainHeight(db) < 0
    THEN [ok |-> FALSE, bc |-> bc]
    ELSE IF LoadBlocks(db, bc.Chain, 0).ok
         THEN [ok |-> TRUE,
               bc |-> [bc EXCEPT !.Chain = LoadBlocks(db, bc.Chain, 0).Chain,
                                 !.UTXOSet = LoadUTXOSet(db)]]
         ELSE [ok |-> FALSE,
               bc |-> [bc EXCEPT !.Chain = LoadBlocks(db, bc.Chain, 0).Chain]]

\* the else branch of NewBlockchain: the genesis block is appended to what
\* loadFromDatabase left, and the result is saved
Seeded(db, bc, genesisBlock) ==
    processGenesisBlock([bc EXCEPT !.Chain = Append(@, genesisBlock)],
                        genesisBlock)

\* NewBlockchain(db): the Blockchain and the store after the construction
NewBlockchainDB(db, now) ==
    LET loaded == loadFromDatabase(db, [Chain |-> <<>>,
                                        PendingTransactions |-> <<>>,
                                        UTXOSet |-> EmptyUTXOSet])
    IN  IF loaded.ok
        THEN [bc |-> loaded.bc, db |-> db, loaded |-> TRUE]
        ELSE [bc |-> Seeded(db, loaded.bc, createGenesisBlock(now)),
              db |-> saveToDatabase(db, Seeded(db, loaded.bc,
                                               createGenesisBlock(now))),
              loaded |-> FALSE]

\* the calls that end with saveToDatabase: SubmitBlock and ReplaceChain
\* when they return no error
Committing(answer) ==
    /\ answer.err = NoErr
    /\ answer.status \in {"mined", "accepted", "chain_replaced"}

\* the store after a call whose answer is last'
Save ==
    IF Committing(last')
    THEN /\ DB' = saveToDatabase(DB, [Chain |-> Chain',
                                      PendingTransactions |-> PendingTransactions',
                                      UTXOSet |-> UTXOSet'])
         /\ committed' = [Chain |-> Chain', UTXOSet |-> UTXOSet',
                          commits |-> committed.commits + 1]
    ELSE UNCHANGED persisted

unsaved == <<Peers, mutex, pc, local, fetched, access, merkle, net>>

DBInit ==
    /\ \E now \in BootTimes :
          /\ Chain = NewBlockchainDB(EmptyDB, now).bc.Chain
          /\ PendingTransactions = <<>>
          /\ UTXOSet = NewBlockchainDB(EmptyDB, now).bc.UTXOSet
          /\ DB = NewBlockchainDB(EmptyDB, now).db
          /\ committed = [Chain |-> NewBlockchainDB(EmptyDB, now).bc.Chain,
                          UTXOSet |-> NewBlockchainDB(EmptyDB, now).bc.UTXOSet,
                          commits |-> 0]
    /\ last = Result("start", "ok", NoErr)
    /\ Peers = NewNode(ConfiguredFlag)
    /\ mutex = Unlocked
    /\ pc = [g \in Goroutines |->
                CASE g = "discover" -> "sleeping"
                  [] g \in {"broadcast", "sync"} -> "none"
                  [] OTHER -> "idle"]
    /\ local = [g \in Goroutines |-> <<>>]
    /\ fetched = NoChain
    /\ access = NoAccess
    /\ merkle = NoMerkle
    /\ net = NoNet

\* CreateTransaction writes nothing to the store
dbCreateTransaction(r) ==
    /\ Len(Chain) < MaxChain
    /\ Len(PendingTransactions) < MaxPending
    /\ Created(r)
    /\ UNCHANGED persisted
    /\ UNCHANGED unsaved

\* Mine and SubmitBlock of the mined block
dbMine ==
    /\ Len(Chain) < MaxChain
    /\ committed.commits < MaxCommits
    /\ Submitted("mine", SubmitBlock(BC, Mine(BC, MinerAddr, MineTime)),
                 "mined", "submit_failed", "/block/broadcast")
    /\ Save
    /\ UNCHANGED unsaved

\* SubmitBlock of a block received from a peer
dbSubmitBlock(kind) ==
    /\ Len(Chain) < MaxChain
    /\ committed.commits < MaxCommits
    /\ BlockReceived(BroadcastBlock(BC, kind))
    /\ Save
    /\ UNCHANGED unsaved

\* ReplaceChain with the chain of a peer
dbReplaceChain(p) ==
    /\ committed.commits < MaxCommits
    /\ Replaced(p)
    /\ Save
    /\ UNCHANGED unsaved

\* the process ends, and a new Blockchain is constructed from the adapter
dbRestart ==
    /\ last.op # "restart"
    /\ committed.commits < MaxCommits
    /\ \E now \in BootTimes :
          /\ Becomes(NewBlockchainDB(DB, now).bc)
          /\ DB' = NewBlockchainDB(DB, now).db
          /\ committed' = IF NewBlockchainDB(DB, now).loaded
                          THEN committed
                          ELSE [Chain |-> NewBlockchainDB(DB, now).bc.Chain,
                                UTXOSet |-> NewBlockchainDB(DB, now).bc.UTXOSet,
                                commits |-> committed.commits + 1]
          /\ last' = Result("restart",
                            IF NewBlockchainDB(DB, now).loaded
                            THEN "loaded" ELSE "created", NoErr)
    /\ UNCHANGED unsaved

DBNext ==
    \/ \E r \in Requests : dbCreateTransaction(r)
    \/ dbMine
    \/ \E kind \in BlockKinds : dbSubmitBlock(kind)
    \/ \E p \in PeerChainIds : dbReplaceChain(p)
    \/ dbRestart

DBSpec == DBInit /\ [][DBNext]_vars

(***************************************************************************)
(* Concurrent requests on one node: POST /mine, two POST /block/broadcast  *)
(* and two POST /blockchain/sync, each served by a goroutine of its own. A *)
(* request body is decoded before n.mutex is taken; the locked section     *)
(* runs from n.mutex.Lock() to the deferred n.mutex.Unlock().  Each        *)
(* goroutine serves one request.                                           *)
(***************************************************************************)
\* the blocks the two /block/broadcast requests carry: a peer's block of a
\* coinbase alone, or one of BroadcastBlock
ServedKinds == {"plain", "honest"}

ServedBlock(bc, kind) ==
    IF kind = "plain" THEN PeerBlockWith(bc, <<>>) ELSE BroadcastBlock(bc, kind)

\* the chains the /blockchain/sync requests carry
ServedChains == {p \in PeerChainIds : p.kind \in {"honest", "badtx"}}

BlockServers == {"blockA", "blockB"}
SyncServers == {"syncA", "syncB"}
Servers == {"mine"} \cup BlockServers \cup SyncServers

\* the request a goroutine serves: its decoded body (for /mine the block
\* that Miner.Mine returned), the /block/broadcast requests that were being
\* served while it was, and whether its block was appended; the record of
\* a request that appended a block is kept after the answer
NoRequest == [body |-> NoBlock, with |-> {}, appended |-> FALSE]

InFlight(g) == pc[g] \notin {"none", "done"}

\* goroutine g starts to serve a request with the given body
Serve(g, body, at) ==
    /\ pc[g] = "none"
    /\ Goto(g, at)
    /\ local' = [h \in Servers |->
                    IF h = g
                    THEN [body |-> body,
                          with |-> {k \in BlockServers : InFlight(k)},
                          appended |-> FALSE]
                    ELSE IF InFlight(h) /\ g \in BlockServers
                         THEN [local[h] EXCEPT !.with = @ \cup {g}]
                         ELSE local[h]]

serving == <<Peers, fetched, access, DB, committed, merkle, net>>

ServeInit ==
    /\ \E now \in BootTimes :
          /\ Chain = NewBlockchain(now).Chain
          /\ PendingTransactions = NewBlockchain(now).PendingTransactions
          /\ UTXOSet = NewBlockchain(now).UTXOSet
    /\ last = Result("start", "ok", NoErr)
    /\ Peers = <<>>
    /\ mutex = Unlocked
    /\ pc = [g \in Servers |-> "none"]
    /\ local = [g \in Servers |-> NoRequest]
    /\ fetched = NoChain
    /\ access = NoAccess
    /\ DB = NoDB
    /\ committed = NoCommit
    /\ merkle = NoMerkle
    /\ net = NoNet

\* json.NewDecoder(r.Body).Decode(&block) of handleBlockBroadcast: a block
\* some peer built on the chain the node has when the request arrives
serveBlockDecode(g, kind) ==
    /\ Len(Chain) < MaxChain
    /\ Serve(g, ServedBlock(BC, kind), "locking")
    /\ UNCHANGED <<ledger, mutex, serving>>

\* the decode of handleBlockchainSync
serveSyncDecode(g, p) ==
    /\ g \in SyncServers
    /\ Serve(g, p, "locking")
    /\ UNCHANGED <<ledger, mutex, serving>>

\* handleMine has no body
serveMineRequest ==
    /\ Len(Chain) < MaxChain
    /\ Serve("mine", NoBlock, "locking")
    /\ UNCHANGED <<ledger, mutex, serving>>

\* n.mutex.Lock() without waiting for the lock to be free
serveLockNoWait(g) ==
    /\ pc[g] = "locking"
    /\ mutex' = [mutex EXCEPT !.writer = g]
    /\ Goto(g, "locked")
    /\ UNCHANGED <<ledger, local, serving>>

\* n.mutex.Lock() of the three handlers
serveLock(g) ==
    /\ pc[g] = "locking"
    /\ Lock(g)
    /\ Goto(g, "locked")
    /\ UNCHANGED <<ledger, local, serving>>

\* the block was appended by the step
Appended == last'.status \in {"mined", "accepted"}

\* the locked section of handleBlockBroadcast
serveBlockSubmit(g) ==
    /\ g \in BlockServers
    /\ pc[g] = "locked"
    /\ BlockReceived(local[g].body)
    /\ local' = [local EXCEPT ![g].appended = Appended]
    /\ Goto(g, "answered")
    /\ UNCHANGED <<mutex, serving>>

\* block := n.Miner.Mine(n.Blockchain)
serveMine ==
    /\ pc["mine"] = "locked"
    /\ local' = [local EXCEPT !["mine"].body = Mine(BC, MinerAddr, MineTime)]
    /\ Goto("mine", "mined")
    /\ UNCHANGED <<ledger, mutex, serving>>

\* n.Blockchain.SubmitBlock(block) of handleMine
serveMineSubmit ==
    /\ pc["mine"] = "mined"
    /\ Submitted("mine", SubmitBlock(BC, local["mine"].body), "mined",
                 "submit_failed", "/block/broadcast")
    /\ local' = [local EXCEPT !["mine"].appended = Appended]
    /\ Goto("mine", "answered")
    /\ UNCHANGED <<mutex, serving>>

\* the locked section of handleBlockchainSync
serveSyncReplace(g) ==
    /\ g \in SyncServers
    /\ pc[g] = "locked"
    /\ Replaced(local[g].body)
    /\ Goto(g, "answered")
    /\ UNCHANGED <<mutex, local, serving>>

\* the deferred n.mutex.Unlock()
serveUnlock(g) ==
    /\ pc[g] = "answered"
    /\ mutex.writer = g
    /\ Unlock(g)
    /\ Goto(g, "done")
    /\ local' = [local EXCEPT ![g] = IF @.appended THEN @ ELSE NoRequest]
    /\ UNCHANGED <<ledger, serving>>

ServeNext ==
    \/ \E g \in BlockServers, kind \in ServedKinds : serveBlockDecode(g, kind)
    \/ \E g \in SyncServers, p \in ServedChains : serveSyncDecode(g, p)
    \/ serveMineRequest
    \/ \E g \in Servers : serveLock(g)
    \/ \E g \in BlockServers : serveBlockSubmit(g)
    \/ serveMine
    \/ serveMineSubmit
    \/ \E g \in SyncServers : serveSyncReplace(g)
    \/ \E g \in Servers : serveUnlock(g)

ServeSpec == ServeInit /\ [][ServeNext]_vars

(***************************************************************************)
(* The Merkle tree.  A byte string is a sequence of tokens: a byte of an   *)
(* item, or the 32 bytes of a digest as one token that holds what was      *)
(* hashed, so that two digests are equal exactly when their inputs are.    *)
(***************************************************************************)
\* the longest build sequence
MaxItems == 5

Raw(b) == <<"raw", b>>

\* sha256.Sum256 of a byte string
Sum256(bytes) == << <<"sha256", bytes>> >>

\* the items trees are built from, and an item no tree is built from
ItemA == <<Raw("t"), Raw("x"), Raw("1")>>
ItemB == <<Raw("t"), Raw("x"), Raw("2")>>
Absent == <<Raw("w"), Raw("r"), Raw("o"), Raw("n"), Raw("g")>>
Items == {ItemA, ItemB}
Queries == Items \cup {Absent}

RECURSIVE SeqsUpTo(_, _)
SeqsUpTo(S, n) ==
    IF n = 0
    THEN {<<>>}
    ELSE SeqsUpTo(S, n - 1)
         \cup {Append(s, x) : s \in {t \in SeqsUpTo(S, n - 1) : Len(t) = n - 1},
                              x \in S}

BuildSequences == SeqsUpTo(Items, MaxItems)

NoData == <<>>
NoHash == <<>>

\* a nil *Node
NoNode == [Hash |-> NoHash, Data |-> NoData]

\* a right child that is nil when the level ends with the left child
RightChildAbsent(level, k) ==
    IF 2 * k <= Len(level)
    THEN level[2 * k]
    ELSE NoNode

\* the right child of the k-th parent over a level: the next node, or a
\* copy of the left child when the level ends with the left child
RightChild(level, k) ==
    IF 2 * k <= Len(level)
    THEN level[2 * k]
    ELSE [Hash |-> level[2 * k - 1].Hash, Data |-> level[2 * k - 1].Data]

ParentNode(left, right) ==
    [Hash |-> Sum256(left.Hash \o right.Hash), Data |-> NoData]

NextLevel(level) ==
    [k \in 1..((Len(level) + 1) \div 2) |->
        ParentNode(level[2 * k - 1], RightChild(level, k))]

\* the loop of NewMerkleTree; the node at position i of a level has the node
\* at position (i + 1) \div 2 of the next level as its Parent, and is the
\* Left of that node when i is odd
RECURSIVE BuildLevels(_)
BuildLevels(levels) ==
    IF Len(levels[Len(levels)]) > 1
    THEN BuildLevels(Append(levels, NextLevel(levels[Len(levels)])))
    ELSE levels

LeafNodes(data) ==
    [i \in 1..Len(data) |-> [Hash |-> Sum256(data[i]), Data |-> data[i]]]

TreeOf(levels) ==
    [Root |-> levels[Len(levels)][1], Leaves |-> levels[1], Levels |-> levels]

NewMerkleTree(data) ==
    IF Len(data) = 0
    THEN [Root |-> NoNode, Leaves |-> <<>>, Levels |-> <<>>]
    ELSE TreeOf(BuildLevels(<<LeafNodes(data)>>))

GetRootHash(mt) == mt.Root.Hash

\* a nil *MerkleProof
NoProof == [LeafIndex |-> -1, LeafHash |-> NoHash, Siblings |-> <<>>,
            Path |-> <<>>]

\* the index of the first leaf with the hash target from position i on,
\* and -1 when there is none
RECURSIVE FirstLeaf(_, _, _)
FirstLeaf(mt, target, i) ==
    IF i > Len(mt.Leaves)
    THEN -1
    ELSE IF mt.Leaves[i].Hash = target
         THEN i - 1
         ELSE FirstLeaf(mt, target, i + 1)

\* the step of GenerateProof with the direction of the sibling inverted
WithSiblingInverted(proof, hash, right) ==
    [proof EXCEPT !.Siblings = Append(@, hash), !.Path = Append(@, ~right)]

WithSibling(proof, hash, right) ==
    [proof EXCEPT !.Siblings = Append(@, hash), !.Path = Append(@, right)]

\* GenerateProof without the sibling of a node whose right neighbour is
\* its own copy
RECURSIVE ClimbSkippingCopies(_, _, _, _)
ClimbSkippingCopies(mt, lvl, i, proof) ==
    IF lvl >= Len(mt.Levels)
    THEN proof
    ELSE IF i % 2 = 1
         THEN ClimbSkippingCopies(mt, lvl + 1, (i + 1) \div 2,
                   IF i + 1 <= Len(mt.Levels[lvl])
                   THEN WithSibling(proof,
                            RightChild(mt.Levels[lvl], (i + 1) \div 2).Hash,
                            TRUE)
                   ELSE proof)
         ELSE ClimbSkippingCopies(mt, lvl + 1, (i + 1) \div 2,
                   WithSibling(proof, mt.Levels[lvl][i - 1].Hash, FALSE))

\* the walk of GenerateProof from the node at position i of level lvl up
\* to the node without a Parent
RECURSIVE Climb(_, _, _, _)
Climb(mt, lvl, i, proof) ==
    IF lvl >= Len(mt.Levels)
    THEN proof
    ELSE IF i % 2 = 1
         THEN Climb(mt, lvl + 1, (i + 1) \div 2,
                    WithSibling(proof,
                        RightChild(mt.Levels[lvl], (i + 1) \div 2).Hash, TRUE))
         ELSE Climb(mt, lvl + 1, (i + 1) \div 2,
                    WithSibling(proof, mt.Levels[lvl][i - 1].Hash, FALSE))

Found(mt, data, leafIndex) ==
    IF leafIndex = -1
    THEN [proof |-> NoProof, err |-> "data not found in tree"]
    ELSE [proof |-> Climb(mt, 1, leafIndex + 1,
                          [LeafIndex |-> leafIndex, LeafHash |-> Sum256(data),
                           Siblings |-> <<>>, Path |-> <<>>]),
          err |-> NoErr]

\* GenerateProof that answers a missing item with the proof of the first
\* leaf
GenerateProofOfFirst(mt, data) ==
    IF mt.Root = NoNode
    THEN [proof |-> NoProof, err |-> "empty tree"]
    ELSE IF FirstLeaf(mt, Sum256(data), 1) = -1
         THEN Found(mt, mt.Leaves[1].Data, 0)
         ELSE Found(mt, data, FirstLeaf(mt, Sum256(data), 1))

GenerateProof(mt, data) ==
    IF mt.Root = NoNode
    THEN [proof |-> NoProof, err |-> "empty tree"]
    ELSE Found(mt, data, FirstLeaf(mt, Sum256(data), 1))

\* what the loop over proof.Siblings leaves when proof.Path is the shorter
\* list: the index is out of range
OutOfRange == << <<"panic", <<>>>> >>

\* the loop of both verifiers from sibling i on
RECURSIVE Fold(_, _, _)
Fold(proof, currentHash, i) ==
    IF i > Len(proof.Siblings)
    THEN currentHash
    ELSE IF i > Len(proof.Path)
         THEN OutOfRange
         ELSE IF proof.Path[i]
              THEN Fold(proof, Sum256(currentHash \o proof.Siblings[i]), i + 1)
              ELSE Fold(proof, Sum256(proof.Siblings[i] \o currentHash), i + 1)

Compared(currentHash, rootHash) ==
    IF currentHash = OutOfRange
    THEN Panic
    ELSE IF currentHash = rootHash THEN "true" ELSE "false"

VerifyProof(mt, proof, rootHash) ==
    IF proof = NoProof \/ mt.Root = NoNode
    THEN "false"
    ELSE IF rootHash # mt.Root.Hash
         THEN "false"
         ELSE Compared(Fold(proof, proof.LeafHash, 1), rootHash)

VerifyProofStandalone(data, proof, rootHash) ==
    IF proof = NoProof
    THEN Panic              \* proof.LeafHash of a nil proof
    ELSE IF Sum256(data) # proof.LeafHash
         THEN "false"
         ELSE Compared(Fold(proof, Sum256(data), 1), rootHash)

(***************************************************************************)
(* A program that builds a tree, asks it for proofs, and verifies proofs   *)
(* that came back from elsewhere, possibly altered on the way.             *)
(***************************************************************************)
\* a digest that is in no tree
WrongHash == Sum256(<<Raw("?")>>)

Alterations ==
    {"sibling", "direction", "leafhash", "leafindex", "dropsibling",
     "addsibling", "droppath", "addpath"}

Flip(b) == ~b

ButLast(s) == SubSeq(s, 1, Len(s) - 1)

\* the proof with one field altered at position i of its lists
Alter(proof, kind, i) ==
    CASE kind = "sibling" -> [proof EXCEPT !.Siblings[i] = WrongHash]
      [] kind = "direction" -> [proof EXCEPT !.Path[i] = Flip(@)]
      [] kind = "leafhash" -> [proof EXCEPT !.LeafHash = WrongHash]
      [] kind = "leafindex" -> [proof EXCEPT !.LeafIndex = @ + 1]
      [] kind = "dropsibling" -> [proof EXCEPT !.Siblings = ButLast(@)]
      [] kind = "addsibling" -> [proof EXCEPT !.Siblings = Append(@, WrongHash),
                                              !.Path = Append(@, TRUE)]
      [] kind = "droppath" -> [proof EXCEPT !.Path = ButLast(@)]
      [] kind = "addpath" -> [proof EXCEPT !.Path = Append(@, TRUE)]

\* the positions at which the alteration changes the proof
AlterablePositions(proof, kind) ==
    IF kind \in {"sibling", "direction"}
    THEN 1..Len(proof.Siblings)
    ELSE IF kind \in {"dropsibling", "droppath"} /\ proof.Siblings = <<>>
         THEN {}
         ELSE {1}

Unaltered == "none"

\* nothing asked of the tree yet
Built(data) ==
    [op |-> "NewMerkleTree", data |-> data, tree |-> NewMerkleTree(data),
     query |-> NoData, proof |-> NoProof, err |-> NoErr, altered |-> Unaltered,
     at |-> 0, original |-> NoProof, given |-> NoData, root |-> NoHash,
     result |-> "none"]

MerkleInit ==
    /\ \E data \in BuildSequences : merkle = Built(data)
    /\ Chain = <<>>
    /\ PendingTransactions = <<>>
    /\ UTXOSet = EmptyUTXOSet
    /\ last = Result("none", "none", NoErr)
    /\ Peers = <<>>
    /\ mutex = Unlocked
    /\ pc = [g \in Goroutines |-> "none"]
    /\ local = [g \in Goroutines |-> <<>>]
    /\ fetched = NoChain
    /\ access = NoAccess
    /\ DB = NoDB
    /\ committed = NoCommit
    /\ net = NoNet

Generated(data, answer) ==
    merkle' = [merkle EXCEPT !.op = "GenerateProof", !.query = data,
                             !.proof = answer.proof, !.err = answer.err,
                             !.original = answer.proof,
                             !.altered = Unaltered, !.at = 0,
                             !.given = NoData, !.root = NoHash,
                             !.result = "none"]

\* tree.GenerateProof(data)
generateProof(data) ==
    /\ merkle.op = "NewMerkleTree"
    /\ Generated(data, GenerateProof(merkle.tree, data))
    /\ UNCHANGED <<node, net>>

\* the proof is altered before it is verified
alterProof(kind, i) ==
    /\ merkle.op = "GenerateProof"
    /\ merkle.proof # NoProof
    /\ i \in AlterablePositions(merkle.proof, kind)
    /\ merkle' = [merkle EXCEPT !.op = "alter", !.altered = kind, !.at = i,
                                !.proof = Alter(@, kind, i)]
    /\ UNCHANGED <<node, net>>

Verified(op, data, rootHash, result) ==
    merkle' = [merkle EXCEPT !.op = op, !.given = data, !.root = rootHash,
                             !.result = result]

\* the root hashes a verifier is given: that of the tree, or another
RootHashes == {"root", "other"}

RootHash(mt, which) == IF which = "root" THEN GetRootHash(mt) ELSE WrongHash

\* VerifyProofStandalone(data, proof, rootHash)
verifyProofStandalone(data, which) ==
    /\ merkle.op \in {"GenerateProof", "alter"}
    /\ Verified("VerifyProofStandalone", data, RootHash(merkle.tree, which),
                VerifyProofStandalone(data, merkle.proof,
                                      RootHash(merkle.tree, which)))
    /\ UNCHANGED <<node, net>>

\* tree.VerifyProof(proof, rootHash)
verifyProof(which) ==
    /\ merkle.op \in {"GenerateProof", "alter"}
    /\ Verified("VerifyProof", merkle.query, RootHash(merkle.tree, which),
                VerifyProof(merkle.tree, merkle.proof,
                            RootHash(merkle.tree, which)))
    /\ UNCHANGED <<node, net>>

MerkleNext ==
    \/ \E data \in Queries : generateProof(data)
    \/ \E kind \in Alterations, i \in 1..MaxItems : alterProof(kind, i)
    \/ \E data \in Queries, which \in RootHashes :
          verifyProofStandalone(data, which)
    \/ \E which \in RootHashes : verifyProof(which)

MerkleSpec == MerkleInit /\ [][MerkleNext]_vars

(***************************************************************************)
(* A network of nodes configured as peers of one another.  Each node has   *)
(* its own Blockchain and miner wallet; the requests between the nodes are *)
(* in flight until the receiving handler runs.                             *)
(***************************************************************************)
\* the number of blocks mined in the network before mining stops
MaxMined == 3

NodeA == "localhost:8080"
NodeB == "localhost:8081"
NetNodes == {NodeA, NodeB}

\* the address of the miner wallet of a node
MinerOf(n) == IF n = NodeA THEN MinerAddr ELSE PeerAddr

\* the -peers flag of a node: the other nodes
PeersOf(n) == IF n = NodeA THEN <<NodeB>> ELSE <<NodeA>>

\* a node and a peer of its -peers flag
Links == {l \in NetNodes \X NetNodes : l[1] # l[2]}

InList(list, x) == \E i \in 1..Len(list) : list[i] = x

\* addPeer
addPeer(peers, peerAddress) ==
    IF InList(peers, peerAddress) THEN peers ELSE Append(peers, peerAddress)

\* the requests broadcastToPeers sends for a block
BlockBroadcasts(peers, block) ==
    {[to |-> peers[i], block |-> block] : i \in 1..Len(peers)}

\* the Blockchain of a node after handleBlockBroadcast of the block
AfterBlockBroadcast(bc, block) ==
    IF block.Index <= Len(bc.Chain) - 1
    THEN bc
    ELSE IF block.Index # Len(bc.Chain)
         THEN bc
         ELSE SubmitBlock(bc, block).bc

\* the Blockchain of a node after handleBlockchainSync of the chain
AfterBlockchainSync(bc, peerChain) ==
    IF IsLongerThan(peerChain, bc.Chain) /\ IsValidChain(peerChain)
    THEN ReplaceChain(bc, peerChain).bc
    ELSE bc

\* syncWithPeer posts the chain it fetched to the node's own
\* /blockchain/sync when that chain is the longer one
AfterSyncWithPeer(bc, peerChain) ==
    IF IsLongerThan(peerChain, bc.Chain)
    THEN AfterBlockchainSync(bc, peerChain)
    ELSE bc

NetInit ==
    /\ net = [op |-> "start",
              ledger |-> [n \in NetNodes |-> NewBlockchain(LocalBoot)],
              peers |-> [n \in NetNodes |-> PeersOf(n)],
              boot |-> [l \in Links |-> "sleeping"],
              fetched |-> [l \in Links |-> <<>>],
              blocks |-> {},
              mined |-> 0]
    /\ Chain = <<>>
    /\ PendingTransactions = <<>>
    /\ UTXOSet = EmptyUTXOSet
    /\ last = Result("none", "none", NoErr)
    /\ Peers = <<>>
    /\ mutex = Unlocked
    /\ pc = [g \in Goroutines |-> "none"]
    /\ local = [g \in Goroutines |-> <<>>]
    /\ fetched = NoChain
    /\ access = NoAccess
    /\ DB = NoDB
    /\ committed = NoCommit
    /\ merkle = NoMerkle

alone == <<Chain, PendingTransactions, UTXOSet, last, Peers, mutex, pc,
           local, fetched, access, DB, committed, merkle>>

\* the network after node n mined block and SubmitBlock answered submitted
Mined(n, block, submitted) ==
    net' = [net EXCEPT !.op = "mine",
                       !.ledger[n] = submitted.bc,
                       !.blocks = IF submitted.err = NoErr
                                  THEN @ \cup BlockBroadcasts(net.peers[n], block)
                                  ELSE @,
                       !.mined = @ + 1]

\* POST /mine on node n
netMine(n) ==
    /\ net.mined < MaxMined
    /\ Mined(n, Mine(net.ledger[n], MinerOf(n), MineTime),
             SubmitBlock(net.ledger[n],
                         Mine(net.ledger[n], MinerOf(n), MineTime)))
    /\ UNCHANGED alone

\* the network after the request m was handled
Delivered(m) ==
    net' = [net EXCEPT !.op = "block_broadcast",
                       !.ledger[m.to] = AfterBlockBroadcast(@, m.block),
                       !.blocks = @ \ {m}]

\* a block broadcast reaches node n
netBlockBroadcast(n) ==
    /\ \E m \in net.blocks : m.to = n /\ Delivered(m)
    /\ UNCHANGED alone

\* discoverPeers of l[1] wakes up, finds l[2] healthy and announces itself
netAnnounce(l) ==
    /\ net.boot[l] = "sleeping"
    /\ net' = [net EXCEPT !.op = "announce",
                          !.boot[l] = "announced",
                          !.peers[l[2]] = addPeer(@, l[1])]
    /\ UNCHANGED alone

\* syncWithPeer of l[1] fetches the chain of l[2]
netFetch(l) ==
    /\ net.boot[l] = "announced"
    /\ net' = [net EXCEPT !.op = "fetch",
                          !.boot[l] = "fetched",
                          !.fetched[l] = net.ledger[l[2]].Chain]
    /\ UNCHANGED alone

\* syncWithPeer of l[1] compares the chain and posts it to its own node
netSync(l) ==
    /\ net.boot[l] = "fetched"
    /\ net' = [net EXCEPT !.op = "sync",
                          !.boot[l] = "done",
                          !.fetched[l] = <<>>,
                          !.ledger[l[1]] = AfterSyncWithPeer(@, net.fetched[l])]
    /\ UNCHANGED alone

Delivery ==
    \/ \E n \in NetNodes : netBlockBroadcast(n)
    \/ \E l \in Links : netAnnounce(l)
    \/ \E l \in Links : netFetch(l)
    \/ \E l \in Links : netSync(l)

NetNext ==
    \/ \E n \in NetNodes : netMine(n)
    \/ \E n \in NetNodes : netBlockBroadcast(n)
    \/ \E l \in Links : netAnnounce(l)
    \/ \E l \in Links : netFetch(l)
    \/ \E l \in Links : netSync(l)

NetSpec == NetInit /\ [][NetNext]_vars

\* every request in flight is answered and every started goroutine runs on;
\* nothing makes an operator mine
FairNetSpec == NetSpec /\ WF_vars(Delivery)

\* the requests one after the other, each handler in one piece
Next ==
    \/ \E r \in Requests : handleTransaction(r)
    \/ \E tx \in BroadcastTxs(BC) : handleTransactionBroadcast(tx)
    \/ handleMine
    \/ \E kind \in BlockKinds : handleBlockBroadcast(kind)
    \/ \E p \in PeerChainIds : handleBlockchainSync(p)

Spec == Init /\ [][Next]_vars

\* every outpoint has one owner address, which makes the owner search of
\* validateTransactions independent of the iteration order of the map
OwnerUnique ==
    \A a, b \in Addresses :
        \A i \in 1..Len(UTXOSet[a]) :
            HasUTXO(UTXOSet[b], UTXOSet[a][i].TxID, UTXOSet[a][i].OutIndex) => a = b

(***************************************************************************)
(* Properties.                                                             *)
(***************************************************************************)
\* positions <<block, transaction, input>> of the inputs of the chain that
\* spend an output (the input of a coinbase spends none)
SpendingInputs ==
    UNION {UNION {{<<b, t, i>> : i \in 1..Len(Chain[b].Transactions[t].Inputs)} :
                  t \in {n \in 1..Len(Chain[b].Transactions) :
                            ~IsCoinbase(Chain[b].Transactions[n])}} :
           b \in 1..Len(Chain)}

InputAt(pos) == Chain[pos[1]].Transactions[pos[2]].Inputs[pos[3]]

\* all UTXOs as <<address, position>>
UTXOPositions ==
    UNION {{<<a, i>> : i \in 1..Len(UTXOSet[a])} : a \in Addresses}

UTXOAt(up) == UTXOSet[up[1]][up[2]]

RECURSIVE TotalValue(_)
TotalValue(ups) ==
    IF ups = {}
    THEN 0
    ELSE LET up == CHOOSE x \in ups : TRUE
         IN  UTXOAt(up).Output.Value + TotalValue(ups \ {up})

SubmitOps == {"mine", "block_broadcast"}

\* C1: when SubmitBlock returns an error, the chain, the UTXO set and the
\* pending pool are what they were before the call.
SubmitBlockAtomic ==
    [][(last'.op \in SubmitOps /\ last'.err # NoErr)
          => (Chain' = Chain /\ UTXOSet' = UTXOSet
              /\ PendingTransactions' = PendingTransactions)]_vars

\* a block with a transfer that overdraws its input was refused by the
\* transaction validation while transactions were pending
SubmitBlockRefused ==
    /\ last.op = "block_broadcast"
    /\ last.err = "transaction validation failed"
    /\ PendingTransactions # <<>>
    /\ Len(Chain) >= 2

\* C2: no two spending inputs of the accepted chain reference the same
\* (tx_id, output_index).
NoDoubleSpend ==
    \A p, q \in SpendingInputs :
        (InputAt(p).TxID = InputAt(q).TxID /\ InputAt(p).OutIndex = InputAt(q).OutIndex)
            => p = q

\* C3: a sync request that does not replace the chain leaves the chain and
\* the UTXO set as they were.
SyncFailureUntouched ==
    [][(last'.op = "sync" /\ last'.status # "chain_replaced")
          => (Chain' = Chain /\ UTXOSet' = UTXOSet)]_vars

\* every block of the chain has its proof of work, links back to its
\* predecessor and follows it in index
WellFormed(chain) ==
    \A i \in 1..Len(chain) :
        /\ isValidProof(chain[i])
        /\ i > 1 => /\ chain[i].PreviousHash = chain[i - 1].Hash
                    /\ chain[i].Index = chain[i - 1].Index + 1

\* C4: a sync request changes the local chain exactly when the peer chain
\* is strictly longer and well-formed; the local chain is then the peer
\* chain and the pending pool is empty.
LongestChainReplacement ==
    [][\A p \in PeerChainIds :
          handleBlockchainSync(p) =>
             /\ (Chain' # Chain) <=>
                    (Len(PeerChain(p)) > Len(Chain) /\ WellFormed(PeerChain(p)))
             /\ last'.status = "chain_replaced" =>
                    (Chain' = PeerChain(p) /\ PendingTransactions' = <<>>)]_vars

\* the SHA-256 of the block's contents, its hash field left out
ContentHash(block) == Sha256([block EXCEPT !.Hash = EmptyString])

\* C5: every block of the chain has a hash with DIFFICULTY leading zeros
\* that is the SHA-256 of the block's own contents without the hash field.
BlockHashesValid ==
    \A i \in 1..Len(Chain) :
        /\ Chain[i].Hash.zeros >= DIFFICULTY
        /\ Chain[i].Hash = ContentHash(Chain[i])

\* C6: each (tx-id, output index) is in the UTXO set at most once.
UTXOUnique ==
    \A u, v \in UTXOPositions :
        (UTXOAt(u).TxID = UTXOAt(v).TxID /\ UTXOAt(u).OutIndex = UTXOAt(v).OutIndex)
            => u = v

MintingBlocks == {i \in 1..Len(Chain) : Chain[i].Index # 0}

\* C7: the values of the UTXO set add up to one mining reward for each
\* non-genesis block of the chain, and no UTXO is an output of the genesis
\* transaction.
MoneySupply ==
    /\ TotalValue(UTXOPositions) = MiningReward * Cardinality(MintingBlocks)
    /\ \A u \in UTXOPositions : UTXOAt(u).TxID # GenesisTxID

\* C8: the UTXO set holds no output of the genesis transaction, the
\* balance of the sentinel address is 0 and no pending transfer spends from it.
GenesisUnspendable ==
    /\ \A u \in UTXOPositions : UTXOAt(u).TxID # GenesisTxID
    /\ GetBalance(BC, GenesisAddr) = 0
    /\ \A i \in 1..Len(PendingTransactions) :
          \A j \in 1..Len(PendingTransactions[i].Inputs) :
              PendingTransactions[i].Inputs[j].TxID # GenesisTxID

\* the addresses of the outputs of the chain that an input may refer to
ReferencedOwners(input) ==
    {a \in Addresses :
        \E b \in 1..Len(Chain) : \E t \in 1..Len(Chain[b].Transactions) :
            LET tx == Chain[b].Transactions[t]
            IN  /\ tx.ID = input.TxID
                /\ input.OutIndex + 1 \in 1..Len(tx.Outputs)
                /\ tx.Outputs[input.OutIndex + 1].Address = a}

\* C9: every spending input of the accepted chain carries a signature made
\* with the key of the address that owned the output it spends.
SignaturesEnforced ==
    \A p \in SpendingInputs :
        \E a \in ReferencedOwners(InputAt(p)) : InputAt(p).Signature = SigOf(a)

AllOutputs ==
    {UTXOAt(u).Output : u \in UTXOPositions}
    \cup UNION {{PendingTransactions[i].Outputs[j] :
                    j \in 1..Len(PendingTransactions[i].Outputs)} :
                i \in 1..Len(PendingTransactions)}
    \cup UNION {UNION {{Chain[b].Transactions[t].Outputs[j] :
                           j \in 1..Len(Chain[b].Transactions[t].Outputs)} :
                       t \in 1..Len(Chain[b].Transactions)} :
                b \in 1..Len(Chain)}

\* C10: every output of the pending pool, of the chain and of the UTXO set
\* has a value of at least 0.
NonNegativeOutputs == \A o \in AllOutputs : o.Value >= 0

\* the UTXO set as a set of <<owner address, UTXO>>
UTXOEntries(utxoSet) ==
    UNION {{<<a, utxoSet[a][i]>> : i \in 1..Len(utxoSet[a])} : a \in Addresses}

\* the outpoints the inputs of a transaction reference
Referenced(tx) ==
    {<<tx.Inputs[i].TxID, tx.Inputs[i].OutIndex>> : i \in 1..Len(tx.Inputs)}

\* the outputs of a transaction as UTXO entries (tx.ID, i)
Produced(tx) ==
    {<<tx.Outputs[i].Address, MkUTXO(tx.ID, i - 1, tx.Outputs[i])>> :
        i \in 1..Len(tx.Outputs)}

\* the entries after the transfers of the block from the i-th transaction
\* on: a transfer takes away what its inputs reference and adds its outputs
RECURSIVE AfterTransfers(_, _, _)
AfterTransfers(entries, block, i) ==
    IF i > Len(block.Transactions)
    THEN entries
    ELSE LET tx == block.Transactions[i]
             kept == {e \in entries :
                         <<e[2].TxID, e[2].OutIndex>> \notin Referenced(tx)}
         IN  AfterTransfers(IF IsCoinbase(tx) THEN entries
                            ELSE kept \cup Produced(tx),
                            block, i + 1)

\* the outputs of the coinbases of a block, none for a block of index 0
CoinbaseOutputs(block) ==
    IF block.Index = 0
    THEN {}
    ELSE UNION {Produced(block.Transactions[i]) :
                   i \in {n \in 1..Len(block.Transactions) :
                             IsCoinbase(block.Transactions[n])}}

EntriesAfter(entries, block) ==
    AfterTransfers(entries, block, 1) \cup CoinbaseOutputs(block)

\* the step is one in which SubmitBlock accepted a block, which is then
\* the last one of the chain
BlockAccepted ==
    /\ last'.op \in SubmitOps
    /\ last'.status \in {"mined", "accepted"}

\* C11: after SubmitBlock accepts a block, the UTXO set is the one before
\* the block with, for each transfer in order, the outputs its inputs
\* reference removed and its own outputs added, plus the outputs of the
\* coinbase; nothing else changes.
UTXOTransition ==
    [][BlockAccepted
          => UTXOEntries(UTXOSet') =
                EntriesAfter(UTXOEntries(UTXOSet), Chain'[Len(Chain')])]_vars

\* the value of an outpoint in a set of UTXO entries, 0 when it is absent
ValueOf(entries, txID, outIndex) ==
    LET found == {e \in entries : e[2].TxID = txID /\ e[2].OutIndex = outIndex}
    IN  IF found = {} THEN 0 ELSE (CHOOSE e \in found : TRUE)[2].Output.Value

RECURSIVE ReferencedValue(_, _, _)
ReferencedValue(entries, tx, i) ==
    IF i > Len(tx.Inputs)
    THEN 0
    ELSE ValueOf(entries, tx.Inputs[i].TxID, tx.Inputs[i].OutIndex)
         + ReferencedValue(entries, tx, i + 1)

\* the fee of a transfer: the values its inputs reference less its outputs
FeeOf(entries, tx) == ReferencedValue(entries, tx, 1) - SumValues(tx.Outputs)

RECURSIVE FeesFrom(_, _, _)
FeesFrom(entries, txs, i) ==
    IF i > Len(txs) THEN 0 ELSE FeeOf(entries, txs[i]) + FeesFrom(entries, txs, i + 1)

\* the rules of the coinbase of a non-genesis block
CoinbaseRules(block, utxoSet) ==
    LET txs == block.Transactions
    IN  /\ Len(txs) >= 1
        /\ IsCoinbase(txs[1])
        /\ \A i \in 2..Len(txs) : ~IsCoinbase(txs[i])
        /\ Len(txs[1].Outputs) = 1
        /\ txs[1].Outputs[1].Value =
              MiningReward + FeesFrom(UTXOEntries(utxoSet), txs, 2)

\* C12: a non-genesis block that SubmitBlock accepts is non-empty, starts
\* with its only coinbase, and the coinbase has one output of the mining
\* reward plus the fees of the other transactions; a block handed to
\* SubmitBlock that breaks one of these rules is rejected with an error
\* value and changes nothing.
CoinbaseRulesEnforced ==
    [][/\ (BlockAccepted /\ Chain'[Len(Chain')].Index # 0)
          => CoinbaseRules(Chain'[Len(Chain')], UTXOSet)
       /\ \A kind \in BlockKinds :
             (/\ handleBlockBroadcast(kind)
              /\ BroadcastBlock(BC, kind).Index = Len(Chain)
              /\ BroadcastBlock(BC, kind).Index # 0
              /\ ~CoinbaseRules(BroadcastBlock(BC, kind), UTXOSet))
             => /\ last'.status = "validation_failed"
                /\ last'.err \notin {NoErr, Panic}
                /\ Chain' = Chain /\ UTXOSet' = UTXOSet
                /\ PendingTransactions' = PendingTransactions]_vars

\* the blocks SubmitBlock may be called with in the current state: those a
\* peer broadcasts and the one the node's miner produces
CandidateBlocks ==
    {BroadcastBlock(BC, kind) : kind \in BlockKinds}
    \cup {Mine(BC, MinerAddr, MineTime)}

\* the transactions of a block that are not coinbases
Transfers(block) ==
    {block.Transactions[i] :
        i \in {n \in 1..Len(block.Transactions) : ~IsCoinbase(block.Transactions[n])}}

\* every input references an entry of the UTXO set and the referenced
\* values cover the outputs
Conserves(entries, tx) ==
    /\ \A i \in 1..Len(tx.Inputs) :
          \E e \in entries : /\ e[2].TxID = tx.Inputs[i].TxID
                             /\ e[2].OutIndex = tx.Inputs[i].OutIndex
    /\ ReferencedValue(entries, tx, 1) >= SumValues(tx.Outputs)

\* C13: every transfer of a block that SubmitBlock accepts references only
\* outputs that are in the UTXO set when the block is submitted, and the
\* values it references are at least the values of its outputs; a block
\* with a transfer that breaks either condition is rejected with an error
\* and changes nothing.
MoneyConserved ==
    \A block \in CandidateBlocks :
        LET submitted == SubmitBlock(BC, block)
            broken == {tx \in Transfers(block) :
                          ~Conserves(UTXOEntries(UTXOSet), tx)}
        IN  /\ submitted.err = NoErr => broken = {}
            /\ broken # {} => /\ submitted.err \notin {NoErr, Panic}
                              /\ submitted.bc = BC

\* a block with a transfer was accepted, in a state in which a peer's block
\* with a transfer that overdraws its input or spends a missing output is
\* at hand
TransferAccepted ==
    /\ last.op \in SubmitOps
    /\ last.status \in {"mined", "accepted"}
    /\ Transfers(Chain[Len(Chain)]) # {}
    /\ \E block \in CandidateBlocks :
          /\ block.Index = Len(Chain)
          /\ \E tx \in Transfers(block) : ~Conserves(UTXOEntries(UTXOSet), tx)

\* C14: a block received on /block/broadcast whose index is at most the
\* index of the head block is dropped and leaves chain, UTXO set and
\* pending pool unchanged; so is a block whose index exceeds the head's
\* index by more than one; a block whose index is the head's plus one is
\* handed to SubmitBlock, whose result decides the outcome.
IncomingBlockStateMachine ==
    [][\A kind \in BlockKinds :
          (Chain # <<>> /\ handleBlockBroadcast(kind)) =>
              LET block == BroadcastBlock(BC, kind)
                  head == Chain[Len(Chain)]
                  submitted == SubmitBlock(BC, block)
              IN  /\ block.Index <= head.Index =>
                        /\ UNCHANGED <<Chain, UTXOSet, PendingTransactions>>
                        /\ last'.status = "already_exists"
                  /\ block.Index > head.Index + 1 =>
                        /\ UNCHANGED <<Chain, UTXOSet, PendingTransactions>>
                        /\ last'.status = "invalid_sequence"
                  /\ block.Index = head.Index + 1 =>
                        /\ Becomes(submitted.bc)
                        /\ last'.status = "accepted" <=> submitted.err = NoErr]_vars

\* the identifiers of the transactions of a pool
PoolIDs(pool) == {pool[i].ID : i \in 1..Len(pool)}

InsufficientFundsRefused ==
    [][(last'.op = "transaction") =>
          \A r \in Requests :
             (handleTransaction(r) /\ GetBalance(BC, r.from) < r.amount + r.fee)
             => /\ ~CreateTransaction(BC, r.from, r.to, r.amount, r.fee).ok
                /\ CreateTransaction(BC, r.from, r.to, r.amount, r.fee).tx = NoTx
                /\ last'.status = "failed"
                /\ last'.err # NoErr
                /\ last'.sent = NoBroadcast
                /\ UNCHANGED <<Chain, UTXOSet, PendingTransactions>>]_vars

\* the values of the first k UTXOs of a list, added up
FirstValues(utxos, k) == SumValues([i \in 1..k |-> utxos[i].Output])

BalanceChange(r, address) ==
    (IF address = r.from THEN 0 - (r.amount + r.fee) ELSE 0)
    + (IF address = r.to THEN r.amount ELSE 0)
    + (IF address = MinerAddr THEN MiningReward + r.fee ELSE 0)

\* the pending pool holds one transaction, the transfer that request r creates
OnlyPending(r) ==
    LET created == CreateTransaction([BC EXCEPT !.PendingTransactions = <<>>],
                                     r.from, r.to, r.amount, r.fee)
    IN  created.ok /\ PendingTransactions = <<created.tx>>

GenesisDeterministic ==
    /\ \A t1, t2 \in BootTimes :
          LET g1 == createGenesisBlock(t1)
              g2 == createGenesisBlock(t2)
          IN  /\ g1.Index = 0 /\ g2.Index = 0
              /\ g1.Timestamp = GenesisTimestamp
              /\ g2.Timestamp = GenesisTimestamp
              /\ g1.Transactions = <<NewGenesisTransaction>>
              /\ g2.Transactions = <<NewGenesisTransaction>>
              /\ g1.PreviousHash = ZeroHash /\ g2.PreviousHash = ZeroHash
              /\ g1.Nonce = g2.Nonce
              /\ g1.Hash = g2.Hash
              /\ g1 = g2
    /\ last.op = "start" => Chain = PeerLedger(1, FALSE).Chain

\* a node has been constructed without a persisted chain and holds its
\* genesis block, the proof of work done
GenesisBuilt ==
    /\ last.op = "start"
    /\ Len(Chain) = 1
    /\ Chain[1].Index = 0
    /\ isValidProof(Chain[1])
    /\ UTXOSet[GenesisAddr] # <<>>

\* C20: every read of the Blockchain or of the peer list happens while the
\* goroutine holds the node's lock, shared or exclusive, every mutation
\* while it holds the lock exclusively, and no goroutine reads the peer
\* list while another one is storing to it.
LockDiscipline ==
    /\ access.mode = "read" => access.holds \in {"shared", "exclusive"}
    /\ access.mode = "write" => access.holds = "exclusive"
    /\ ~access.racing

\* C21: the peer list holds each address at most once, for every value of
\* the -peers flag and every sequence of registrations on POST /peers.
PeersUnique ==
    \A i, j \in 1..Len(Peers) : Peers[i] = Peers[j] => i = j

\* C22: with an adapter whose calls succeed, a Blockchain constructed from
\* the store has the chain and the UTXO set that were in memory at the last
\* commit, the saved UTXO set replacing all that was stored before.
PersistenceRoundTrip ==
    /\ NewBlockchainDB(DB, LocalBoot).bc.Chain = committed.Chain
    /\ NewBlockchainDB(DB, LocalBoot).bc.UTXOSet = committed.UTXOSet

\* the item at position i of the build sequence, counted from 0
ItemAt(i) == merkle.data[i + 1]

InBuildSequence(data) == \E i \in 1..Len(merkle.data) : merkle.data[i] = data

\* a proof was generated and reached the verifier as it was generated
Genuine == merkle.err = NoErr /\ merkle.altered = Unaltered

\* C23: for every non-empty build sequence and every item of it, the last
\* item of an odd-sized level and repeated items included, GenerateProof
\* returns a proof, and VerifyProofStandalone of the item, that proof and
\* the root of the tree returns true.
ProofSoundness ==
    /\ (merkle.op = "GenerateProof" /\ InBuildSequence(merkle.query))
          => /\ merkle.err = NoErr
             /\ VerifyProofStandalone(merkle.query, merkle.proof,
                                      GetRootHash(merkle.tree)) = "true"
    /\ (/\ merkle.op = "VerifyProofStandalone"
        /\ Genuine
        /\ merkle.given = merkle.query
        /\ merkle.root = GetRootHash(merkle.tree))
          => merkle.result = "true"

\* the last of three items, after an item that occurs twice, was verified
LastOfOddLevelVerified ==
    /\ merkle.op = "VerifyProofStandalone"
    /\ merkle.data = <<ItemA, ItemA, ItemB>>
    /\ merkle.query = ItemB
    /\ merkle.given = ItemB
    /\ Genuine
    /\ merkle.root = GetRootHash(merkle.tree)
    /\ merkle.result = "true"

\* the verifier was called with the root of the tree
AgainstRoot == merkle.root = GetRootHash(merkle.tree)

Verifiers == {"VerifyProof", "VerifyProofStandalone"}

\* C24: for a proof generated for an item of a tree, verification of
\* another item against that proof and the root returns false, verification
\* of the item against the proof with a sibling hash, a direction bit, the
\* leaf hash, the leaf index or the length of a list altered returns false,
\* and verification of the item with the unaltered proof against another
\* root returns false.
ProofCompleteness ==
    /\ (/\ merkle.op = "VerifyProofStandalone"
        /\ Genuine
        /\ merkle.given # merkle.query
        /\ AgainstRoot)
          => merkle.result = "false"
    /\ (/\ merkle.op \in Verifiers
        /\ merkle.err = NoErr
        /\ merkle.altered # Unaltered
        /\ merkle.given = merkle.query
        /\ AgainstRoot)
          => merkle.result = "false"
    /\ (/\ merkle.op \in Verifiers
        /\ Genuine
        /\ merkle.given = merkle.query
        /\ ~AgainstRoot)
          => merkle.result = "false"

\* the least k with 2^k >= n, from k on
RECURSIVE CeilLog2From(_, _)
CeilLog2From(n, k) == IF 2 ^ k >= n THEN k ELSE CeilLog2From(n, k + 1)

CeilLog2(n) == CeilLog2From(n, 0)

\* C25: the proof generated for a member of a tree built over N >= 1 items
\* has exactly ceil(log2 N) sibling hashes and as many direction bits, none
\* for N = 1.
ProofSize ==
    (merkle.op = "GenerateProof" /\ merkle.err = NoErr)
        => /\ Len(merkle.proof.Siblings) = CeilLog2(Len(merkle.data))
           /\ Len(merkle.proof.Path) = CeilLog2(Len(merkle.data))

\* a proof of three siblings was generated for the last of five items,
\* whose node has no neighbour on two levels
LongProofGenerated ==
    /\ merkle.op = "GenerateProof"
    /\ merkle.err = NoErr
    /\ Len(merkle.data) = 5
    /\ merkle.proof.LeafIndex = 4
    /\ Len(merkle.proof.Siblings) = 3

\* C26: verification of an item and a proof against the root of a tree
\* succeeds only when the item is the one stored at position
\* proof.LeafIndex of the build sequence, and does succeed for it with the
\* proof GenerateProof returned; GenerateProof records the position of the
\* first leaf whose hash is that of the item, and that hash.
ProofBindsIndex ==
    /\ (merkle.op \in Verifiers /\ merkle.err = NoErr /\ AgainstRoot
           /\ merkle.result = "true")
          => /\ merkle.proof.LeafIndex \in 0..(Len(merkle.data) - 1)
             /\ ItemAt(merkle.proof.LeafIndex) = merkle.given
    /\ (merkle.op \in Verifiers /\ Genuine /\ AgainstRoot
           /\ merkle.given = ItemAt(merkle.proof.LeafIndex))
          => merkle.result = "true"
    /\ (merkle.op = "GenerateProof" /\ merkle.err = NoErr)
          => /\ merkle.proof.LeafIndex \in 0..(Len(merkle.data) - 1)
             /\ ItemAt(merkle.proof.LeafIndex) = merkle.query
             /\ \A j \in 0..(merkle.proof.LeafIndex - 1) :
                   ItemAt(j) # merkle.query
             /\ merkle.proof.LeafHash = Sum256(merkle.query)

\* C27: GenerateProof on a tree built from the empty sequence returns the
\* error "empty tree" and no proof, GenerateProof for data whose hash is
\* that of no leaf returns the error "data not found in tree" and no proof,
\* and the tree is as NewMerkleTree built it in both cases.
GenerationErrors ==
    merkle.op = "GenerateProof"
        => /\ merkle.data = <<>>
                => /\ merkle.err = "empty tree"
                   /\ merkle.proof = NoProof
           /\ (/\ merkle.data # <<>>
               /\ \A i \in 1..Len(merkle.tree.Leaves) :
                     merkle.tree.Leaves[i].Hash # Sum256(merkle.query))
                => /\ merkle.err = "data not found in tree"
                   /\ merkle.proof = NoProof
           /\ merkle.err # NoErr => merkle.tree = NewMerkleTree(merkle.data)

\* an item that is in no leaf was asked of a tree of five leaves
MissingItemAsked ==
    /\ merkle.op = "GenerateProof"
    /\ Len(merkle.data) = 5
    /\ merkle.query = Absent
    /\ merkle.err = "data not found in tree"

\* C29: in every reachable state the previous hash of every block of the
\* local chain but the first is the hash of the block before it, whatever
\* the order of mine, block broadcast and chain sync requests.
ChainLinked ==
    \A i \in 2..Len(Chain) : Chain[i].PreviousHash = Chain[i - 1].Hash

\* a block received from a peer was appended to a chain taken over from a
\* peer
BlockLinkedAfterSync ==
    /\ last.op = "block_broadcast"
    /\ last.status = "accepted"
    /\ Len(Chain) = 3
    /\ \E i \in 1..2 : \E j \in 1..Len(Chain[i].Transactions) :
          \E k \in 1..Len(Chain[i].Transactions[j].Outputs) :
             Chain[i].Transactions[j].Outputs[k].Address = PeerAddr
    /\ Chain[3].PreviousHash = Chain[2].Hash

\* C30: in every reachable state the block at position i of the local chain
\* has index i: the first block has index 0 and a previous hash of 64
\* zeros, and every other block the index of the block before it plus one.
ChainIndexed ==
    /\ Len(Chain) > 0 => /\ Chain[1].Index = 0
                         /\ Chain[1].PreviousHash = ZeroHash
    /\ \A i \in 2..Len(Chain) : Chain[i].Index = Chain[i - 1].Index + 1
    /\ \A i \in 1..Len(Chain) : Chain[i].Index = i - 1

ChainOf(n) == net.ledger[n].Chain

\* every node holds the same chain
Agree == \A n, m \in NetNodes : ChainOf(n) = ChainOf(m)

\* two nodes hold different blocks at one height, and the chain of one of
\* them is the longer
ForkWithLongerBranch ==
    \E n, m \in NetNodes :
        /\ Len(ChainOf(n)) > Len(ChainOf(m))
        /\ \E h \in 1..Len(ChainOf(m)) : ChainOf(n)[h].Hash # ChainOf(m)[h].Hash

\* C28: in a network of nodes configured as peers of one another, after two
\* nodes mined competing blocks at one height and one branch became the
\* longer, every node eventually holds the same chain once mining has
\* stopped and every request in flight was delivered.
ForkConverges == ForkWithLongerBranch ~> Agree

\* C31: the handlers of /transaction/broadcast and /block/broadcast start
\* no broadcast; a broadcast is started only by handleTransaction for the
\* transaction it created and by handleMine for the block it mined and
\* submitted, so no broadcast is the answer to a broadcast.
OneHopFlooding ==
    /\ last.op \in {"transaction_broadcast", "block_broadcast", "sync"}
          => last.sent = NoBroadcast
    /\ last.sent # NoBroadcast
          => \/ /\ last.op = "transaction"
                /\ last.status = "pending"
                /\ last.sent = "/transaction/broadcast"
             \/ /\ last.op = "mine"
                /\ last.status = "mined"
                /\ last.sent = "/block/broadcast"

\* a block with a transfer came in on /block/broadcast and was appended,
\* and nothing was sent
BlockAcceptedSilently ==
    /\ last.op = "block_broadcast"
    /\ last.status = "accepted"
    /\ last.sent = NoBroadcast
    /\ Len(Chain) > 1
    /\ Len(Chain[Len(Chain)].Transactions) > 1

\* the reference definition of the root over the sequence of leaf hashes:
\* pair the hashes left to right, the last one with itself when their number
\* is odd, and hash each pair, until one hash is left
PairedHashes(hashes) ==
    [k \in 1..((Len(hashes) + 1) \div 2) |->
        Sum256(hashes[2 * k - 1]
               \o (IF 2 * k <= Len(hashes) THEN hashes[2 * k]
                                           ELSE hashes[2 * k - 1]))]

RECURSIVE ReferenceRoot(_)
ReferenceRoot(hashes) ==
    IF Len(hashes) = 1 THEN hashes[1] ELSE ReferenceRoot(PairedHashes(hashes))

LeafHashes(data) == [i \in 1..Len(data) |-> Sum256(data[i])]

\* C32: the tree NewMerkleTree built has one leaf per item in input order
\* with the SHA-256 of the item as hash; each level above holds the hashes
\* of the adjacent pairs of the level below, the last node paired with its
\* own hash when the level is odd; the root is the one node of the last
\* level and its hash is the reference root (the hash of the item when
\* there is one item, none when there is no item); and building again from
\* the same sequence gives the same root hash.
MerkleConstruction ==
    LET mt == merkle.tree
        data == merkle.data
    IN  /\ Len(mt.Leaves) = Len(data)
        /\ \A i \in 1..Len(data) :
              /\ mt.Leaves[i].Hash = Sum256(data[i])
              /\ mt.Leaves[i].Data = data[i]
        /\ Len(data) = 0 =>
              /\ mt.Root = NoNode
              /\ GetRootHash(mt) = NoHash
              /\ mt.Levels = <<>>
        /\ Len(data) = 1 =>
              /\ GetRootHash(mt) = Sum256(data[1])
              /\ Len(mt.Levels) = 1
        /\ Len(data) > 0 =>
              /\ mt.Levels[1] = mt.Leaves
              /\ Len(mt.Levels[Len(mt.Levels)]) = 1
              /\ mt.Root = mt.Levels[Len(mt.Levels)][1]
              /\ GetRootHash(mt) = ReferenceRoot(LeafHashes(data))
              /\ \A l \in 1..(Len(mt.Levels) - 1) :
                    /\ Len(mt.Levels[l]) > 1
                    /\ [k \in 1..Len(mt.Levels[l + 1]) |-> mt.Levels[l + 1][k].Hash]
                         = PairedHashes([i \in 1..Len(mt.Levels[l]) |->
                                            mt.Levels[l][i].Hash])
        /\ GetRootHash(NewMerkleTree(data)) = GetRootHash(mt)

\* a tree over three items, the third leaf paired with its own hash, whose
\* root a generated proof was verified against
OddLevelBuilt ==
    /\ merkle.result = "true"
    /\ merkle.altered = Unaltered
    /\ Len(merkle.data) = 3
    /\ Len(merkle.tree.Levels) = 3
    /\ merkle.tree.Levels[2][2].Hash
         = Sum256(Sum256(merkle.data[3]) \o Sum256(merkle.data[3]))

\* a step of the concurrent requests appends the block blk to the chain
AppendsBlock(blk) == Chain' = Append(Chain, blk)

\* the blocks that requests still on record have appended
AppendedBefore ==
    {local[h].body : h \in {k \in BlockServers \cup {"mine"} : local[k].appended}}

\* a step that changes the chain is the replacement of /blockchain/sync or
\* appends one block, by the goroutine that holds the lock, whose index is
\* the chain's length and above that of every block appended before
AppendedInOrder ==
    Chain' # Chain =>
        \/ \E g \in SyncServers : pc[g] = "locked" /\ pc'[g] = "answered"
        \/ \E g \in BlockServers \cup {"mine"} :
              /\ Holds(g) = "exclusive"
              /\ pc'[g] = "answered"
              /\ local'[g].appended
              /\ AppendsBlock(local[g].body)
              /\ local[g].body.Index = Len(Chain)
              /\ \A b \in AppendedBefore : b.Index < local[g].body.Index

\* of two /block/broadcast requests served at the same time with blocks of
\* the same index, at most one has its block appended
OneOfTwoAppended ==
    \A a, b \in BlockServers :
        (/\ a # b
         /\ a \in local[b].with \/ b \in local[a].with
         /\ local[a].body.Index = local[b].body.Index)
            => ~(local[a].appended /\ local[b].appended)

\* the block of /mine is submitted on the head it was mined on
MinedOnHead ==
    pc["mine"] = "mined" =>
        /\ local["mine"].body.Index = Len(Chain)
        /\ local["mine"].body.PreviousHash = LastBlockHash(BC)

\* C33: under every interleaving of /mine, /block/broadcast and
\* /blockchain/sync requests on one node, blocks are appended one at a time
\* in strictly increasing index order; of two concurrent requests carrying
\* blocks for the same index at most one block is appended; and a mined
\* block is built on the head that is current when it is submitted.
BlockAcceptanceSerialized ==
    /\ [][AppendedInOrder]_vars
    /\ [](OneOfTwoAppended /\ MinedOnHead)

\* two requests with blocks of the same index were served at the same time
\* and one block was appended, the other answered already_exists
SameIndexRace ==
    /\ "blockA" \in local["blockB"].with
    /\ local["blockA"].appended
    /\ pc["blockB"] = "answered"
    /\ local["blockB"].body.Index = local["blockA"].body.Index
    /\ last.status = "already_exists"

\* transaction tx is in the pending pool before the step and not after it
LeavesPool(tx) ==
    /\ \E i \in 1..Len(PendingTransactions) : PendingTransactions[i] = tx
    /\ \A i \in 1..Len(PendingTransactions') : PendingTransactions'[i] # tx

\* the step appended a block that holds tx
AcceptedIn(tx) ==
    /\ BlockAccepted
    /\ Chain' # <<>>
    /\ \E i \in 1..Len(Chain'[Len(Chain')].Transactions) :
          Chain'[Len(Chain')].Transactions[i] = tx

\* the step replaced the chain by the chain of /blockchain/sync
ChainReplaced == last'.op = "sync" /\ last'.status = "chain_replaced"

\* C34: a transaction leaves the pending pool only in a step that accepts a
\* block holding it or in a step that replaces the chain by chain sync; the
\* acceptance of a block removes no transaction that is not in the block.
PendingLifecycle ==
    [][\A i \in 1..Len(PendingTransactions) :
          LeavesPool(PendingTransactions[i])
             => AcceptedIn(PendingTransactions[i]) \/ ChainReplaced]_vars

\* C35: every /mine request, whatever the pending pool holds, produces a
\* block that SubmitBlock accepts: the chain grows by exactly one block,
\* the mined one, and the pending pool is empty afterwards; so no pending
\* pool makes the later /mine requests fail.
MiningProgress ==
    [][last'.op = "mine"
          => /\ last'.status = "mined"
             /\ Len(Chain') = Len(Chain) + 1
             /\ Chain' = Append(Chain, Mine(BC, MinerAddr, MineTime))
             /\ PendingTransactions' = <<>>]_vars

\* the UTXO set of a node that obtained the given chain by chain
\* replacement: the replay of ReplaceChain from an empty set
ReplayedFromEmpty(chain) ==
    Replay([Chain |-> chain, PendingTransactions |-> <<>>,
            UTXOSet |-> EmptyUTXOSet], EmptyUTXOSet, 1)

\* C36: the UTXO set is a function of the chain: the set a node maintains
\* step by step equals the set that the replay of its chain from an empty
\* set gives, which is the set of a node that obtained the same chain by
\* chain replacement.
UTXOFunctionOfChain ==
    ReplayedFromEmpty(Chain).err = NoErr
        => UTXOSet = ReplayedFromEmpty(Chain).bc.UTXOSet

\* C37: in every reachable state the local chain is not empty and its first
\* block is the genesis block the node was constructed with; no block
\* broadcast and no chain sync empties the chain or changes its first block.
GenesisPermanent ==
    /\ Chain # <<>>
    /\ Chain[1] = createGenesisBlock(LocalBoot)

\* C38: with a collision-free hash the root identifies the leaf sequence:
\* a tree built from a sequence of items that differs from this tree's
\* sequence, in an item, in the order or in the length, has another root
\* hash.
RootIdentifiesSequence ==
    \A other \in BuildSequences :
        other # merkle.data
            => GetRootHash(NewMerkleTree(other)) # GetRootHash(merkle.tree)

====
